---- MODULE Spec2Model ----
(***************************************************************************)
(* A model of lograptor's matching and aggregation core:                   *)
(*   - AppRule      (lograptor/application.py): one compiled rule and its  *)
(*                   result table, with the total/top queries;             *)
(*   - AppLogParser (lograptor/application.py): the per-application rule   *)
(*                   engine;                                               *)
(*   - process_logfile (lograptor/matcher.py): the per-file pipeline.      *)
(*                                                                         *)
(* Python values are modelled as follows.  A str is a sequence of          *)
(* one-character strings, so that int(), regex search of a literal and     *)
(* the ordering used by sorted() are computed and not looked up.  None is  *)
(* the one-element sequence <<"None">>, which is no str.  A dict is the    *)
(* sequence of its items in insertion order.  An exception is recorded by  *)
(* its class name in a field "raised" ("none" when nothing was raised).    *)
(***************************************************************************)
EXTENDS Integers, Sequences, FiniteSets, TLC

VARIABLES
  rule,   \* the AppRule object under test (specifications SpecRule, SpecAgg)
  ret,    \* what the last call on the rule or the application returned or raised
  hist,   \* history of the calls: the values dicts add_result was given and
          \* the keys increase_last has touched; the number of process calls
  apps,   \* the AppLogParser objects by application
  eng,    \* what create_matcher_engine binds for process_logfile
  lf,     \* the locals of the running process_logfile call
  out     \* what was handed to send_event, in order

rvars == <<rule, ret, hist>>
pvars == <<apps, eng, lf, out>>
vars == <<rule, ret, hist, apps, eng, lf, out>>

\* No application, engine or file takes part (specifications SpecRule, SpecAgg).
NoPipeline == apps = <<>> /\ eng = <<>> /\ lf = <<>> /\ out = <<>>

-----------------------------------------------------------------------------
(* Python values *)

None == <<"None">>

\* None where a result key (a tuple of at least one value) is expected.
NoIdx == <<>>

\* The characters the model's strings are written with, in code point order.
Alphabet == <<"0", "1", "2", "3", "4", "5", "6", "7", "8", "9",
              "a", "b", "c", "d", "e", "h", "l", "o", "s", "t">>

Digits == {"0", "1", "2", "3", "4", "5", "6", "7", "8", "9"}

CharCode(c) == CHOOSE i \in 1..Len(Alphabet) : Alphabet[i] = c

IsStr(v) == v # None

\* str.__lt__: lexicographic by code point.
RECURSIVE StrLess(_, _)
StrLess(a, b) ==
  IF Len(b) = 0 THEN FALSE
  ELSE IF Len(a) = 0 THEN TRUE
  ELSE IF a[1] = b[1] THEN StrLess(Tail(a), Tail(b))
  ELSE CharCode(a[1]) < CharCode(b[1])

\* int(s) succeeds on a non-empty string of decimal digits (the model's strings
\* carry no sign, blank or underscore); on None it raises TypeError and on any
\* other string ValueError.
IsInt(s) == IsStr(s) /\ Len(s) > 0 /\ \A i \in 1..Len(s) : s[i] \in Digits

RECURSIVE IntOf(_)
IntOf(s) ==
  IF Len(s) = 0 THEN 0
  ELSE 10 * IntOf(SubSeq(s, 1, Len(s) - 1)) + (CharCode(s[Len(s)]) - 1)

IntRaises(s) == IF s = None THEN "TypeError" ELSE IF IsInt(s) THEN "none" ELSE "ValueError"

\* re.compile(lit).search(s) for a pattern of ordinary characters: lit occurs in s.
Search(lit, s) ==
  \E i \in 0..(Len(s) - Len(lit)) : SubSeq(s, i + 1, i + Len(lit)) = lit

RECURSIVE SumSeq(_)
SumSeq(s) == IF Len(s) = 0 THEN 0 ELSE s[1] + SumSeq(Tail(s))

Range(s) == {s[i] : i \in 1..Len(s)}

\* Position of the first occurrence of x in s: tuple.index(x), 0 when absent
\* (where Python raises ValueError).
Index(s, x) == IF x \in Range(s) THEN CHOOSE i \in 1..Len(s) : s[i] = x /\ \A j \in 1..(i - 1) : s[j] # x
               ELSE 0

-----------------------------------------------------------------------------
(* Regular expressions with named groups.                                  *)
(* A pattern is the sequence of its parts in source order: "lit" for a     *)
(* stretch of ordinary text, a group name for a named group (?P<name>...), *)
(* together with the set of groups that may take part in no match (an      *)
(* optional group, whose capture is then None).  The empty sequence is the *)
(* empty pattern string.                                                   *)

Pat(toks, opt) == [toks |-> toks, opt |-> opt]

\* re.compile raises re.error when a group name is defined twice.
CompileRaises(pattern) ==
  \E i, j \in 1..Len(pattern.toks) :
     i < j /\ pattern.toks[i] # "lit" /\ pattern.toks[i] = pattern.toks[j]

IsGroup(t) == t # "lit"

\* regexp.groupindex: the named groups, in the order they open in the pattern.
groupindex(pattern) == SelectSeq(pattern.toks, IsGroup)

-----------------------------------------------------------------------------
(* AppRule *)

\* Mutant: every named group is appended, a group named 'host' included.
key_gids_all_groups(gids) == <<"host">> \o gids

\* key_gids: 'host', then every other named group of the pattern.
key_gids(gids) ==
  LET NotHost(g) == g # "host" IN <<"host">> \o SelectSeq(gids, NotHost)

\* AppRule.__init__(name, pattern, args, filter_keys).  filter_keys is None or a
\* list of group names.
AppRule(name, pattern, filter_keys) ==
  IF Len(pattern.toks) = 0 \/ CompileRaises(pattern)
  THEN [raised |-> "LogRaptorConfigError", name |-> name]
  ELSE LET kg == key_gids(groupindex(pattern)) IN
       IF Len(kg) = 0
       THEN [raised |-> "LogRaptorConfigError", name |-> name]
       ELSE [raised |-> "none",
             name |-> name,
             regexp |-> pattern,
             filter_keys |-> IF filter_keys = None THEN <<>> ELSE filter_keys,
             full_match |-> (filter_keys # None),
             used_by_report |-> FALSE,
             results |-> <<>>,
             key_gids |-> kg,
             last_idx |-> NoIdx]

\* dict helpers over a sequence of items [key, cnt]
Keys(results) == {results[i].key : i \in 1..Len(results)}
Pos(results, k) == CHOOSE i \in 1..Len(results) : results[i].key = k
Get(results, k) == results[Pos(results, k)].cnt
Values(results) == [i \in 1..Len(results) |-> results[i].cnt]

\* The result key add_result builds from the values dict.
result_idx(r, values) ==
  <<values["host"]>> \o [i \in 1..(Len(r.key_gids) - 1) |-> values[r.key_gids[i + 1]]]

\* Mutant: an existing key is overwritten with 1 instead of incremented.
add_result_reset(r, values) ==
  LET idx == result_idx(r, values) IN
  [r EXCEPT !.results = IF idx \in Keys(r.results)
                        THEN [r.results EXCEPT ![Pos(r.results, idx)].cnt = 1]
                        ELSE Append(r.results, [key |-> idx, cnt |-> 1]),
            !.last_idx = idx]

\* AppRule.add_result(values)
add_result(r, values) ==
  LET idx == result_idx(r, values) IN
  [r EXCEPT !.results = IF idx \in Keys(r.results)
                        THEN [r.results EXCEPT ![Pos(r.results, idx)].cnt = @ + 1]
                        ELSE Append(r.results, [key |-> idx, cnt |-> 1]),
            !.last_idx = idx]

\* AppRule.increase_last(k)
increase_last(r, k) ==
  IF r.last_idx # NoIdx
  THEN [r EXCEPT !.results[Pos(r.results, r.last_idx)].cnt = @ + k]
  ELSE r

-----------------------------------------------------------------------------
(* AppRule.total_events and AppRule.top_events.  A call returns the record *)
(* [raised, val]: the class of the exception it raised, or its value.      *)

Ok(v) == [raised |-> "none", val |-> v]
Raise(e) == [raised |-> e, val |-> 0]

Min(S) == CHOOSE x \in S : \A y \in S : x <= y

\* "no field": the valfld argument left at None.
NoField == ""

\* A condition is "*" or field=="literal" / field!="literal", which the code
\* takes apart with the regex (\w+)(!=|==)"([^"]*)".
Star == [field |-> "*", op |-> "*", lit |-> <<>>]
Cond(field, op, lit) == [field |-> field, op |-> op, lit |-> lit]

\* One turn of the loops of total_events over the keys of the table: what the
\* key adds to tot, or what it raises.  key_gids.index() has succeeded.
total_step(r, item, cond, valfld) ==
  LET key == item.key
      tested == key[Index(r.key_gids, cond.field)]
      invert == (cond.op = "!=")
      counted == IF valfld = NoField THEN Ok(item.cnt)
                 ELSE LET field == key[Index(r.key_gids, valfld)] IN
                      IF IntRaises(field) # "none" THEN Raise(IntRaises(field))
                      ELSE Ok(item.cnt * IntOf(field))
  IN IF cond = Star THEN counted
     ELSE IF tested = None THEN Raise("TypeError")
     ELSE IF (~invert /\ Search(cond.lit, tested)) \/ (invert /\ ~Search(cond.lit, tested))
          THEN counted
          ELSE Ok(0)

\* The first exception a sequence of steps raises, else the sum of their values.
Fold(steps) ==
  LET bad == {i \in 1..Len(steps) : steps[i].raised # "none"} IN
  IF bad # {} THEN Raise(steps[Min(bad)].raised)
  ELSE Ok(SumSeq([i \in 1..Len(steps) |-> steps[i].val]))

\* Mutant: the != test is ignored, every condition selects like ==.
total_events_no_invert(r, cond, valfld) ==
  Fold([i \in 1..Len(r.results) |->
          total_step(r, r.results[i], [cond EXCEPT !.op = "=="], valfld)])

\* AppRule.total_events(cond, valfld)
total_events(r, cond, valfld) ==
  IF cond = Star /\ valfld = NoField THEN Ok(SumSeq(Values(r.results)))
  ELSE IF valfld # NoField /\ Index(r.key_gids, valfld) = 0 THEN Raise("ValueError")
  ELSE IF cond # Star /\ Index(r.key_gids, cond.field) = 0 THEN Raise("ValueError")
  ELSE Fold([i \in 1..Len(r.results) |-> total_step(r, r.results[i], cond, valfld)])

\* sorted(keys, key=lambda x: x[pos]): a stable sort by the str ordering.  It is
\* used only where the sort raises nothing (see sort_raises).
insert_sorted(sorted, k, pos) ==
  LET n == Cardinality({i \in 1..Len(sorted) : ~StrLess(k[pos], sorted[i][pos])}) IN
  SubSeq(sorted, 1, n) \o <<k>> \o SubSeq(sorted, n + 1, Len(sorted))

RECURSIVE sorted_by(_, _)
sorted_by(ks, pos) ==
  IF Len(ks) = 0 THEN <<>>
  ELSE insert_sorted(sorted_by(SubSeq(ks, 1, Len(ks) - 1), pos), ks[Len(ks)], pos)

\* Sorting two or more keys compares each of them with another one, and
\* None < x raises TypeError (Python 3), for x a str and for x None.
sort_raises(ks, pos) == Len(ks) >= 2 /\ \E i \in 1..Len(ks) : ks[i][pos] = None

\* The ranking list top: num slots, None or [total, [values]].
NoneSlot == [none |-> TRUE, tot |-> 0, vals |-> <<>>]
Slot(tot, vals) == [none |-> FALSE, tot |-> tot, vals |-> vals]

\* top = [None] * num
RECURSIVE NoneSlots(_)
NoneSlots(num) == IF num = 0 THEN <<>> ELSE Append(NoneSlots(num - 1), NoneSlot)

\* Mutant: a total equal to a slot's total opens a slot of its own.
classify_no_ties(top, value, tot, num) ==
  IF value = None THEN top
  ELSE LET hits == {j \in 1..num : top[j].none \/ tot >= top[j].tot} IN
       IF hits = {} THEN top
       ELSE LET j == Min(hits) IN
            IF top[j].none THEN [top EXCEPT ![j] = Slot(tot, <<value>>)]
            ELSE SubSeq(top, 1, j - 1) \o <<Slot(tot, <<value>>)>> \o SubSeq(top, j, Len(top))

\* classify(), the inner function of top_events
classify(top, value, tot, num) ==
  IF value = None THEN top
  ELSE LET hits == {j \in 1..num : top[j].none \/ tot = top[j].tot \/ tot > top[j].tot} IN
       IF hits = {} THEN top
       ELSE LET j == Min(hits) IN
            IF top[j].none THEN [top EXCEPT ![j] = Slot(tot, <<value>>)]
            ELSE IF tot = top[j].tot THEN [top EXCEPT ![j].vals = Append(@, value)]
            ELSE SubSeq(top, 1, j - 1) \o <<Slot(tot, <<value>>)>> \o SubSeq(top, j, Len(top))

\* What a key weighs in sum mode: its count, or count * int(value field).
weight(r, key, val) ==
  IF val = 0 THEN Get(r.results, key) ELSE Get(r.results, key) * IntOf(key[val])

\* The loop of top_events over the sorted keys, with its else clause.
RECURSIVE top_loop(_, _, _, _, _, _)
top_loop(r, keys, value, tot, top, c) ==
  IF Len(keys) = 0 THEN classify(top, value, tot, c.num)
  ELSE LET key == keys[1] IN
       IF value = None \/ value # key[c.pos]
       THEN top_loop(r, Tail(keys), key[c.pos], weight(r, key, c.val),
                     classify(top, value, tot, c.num), c)
       ELSE top_loop(r, Tail(keys), value, tot + weight(r, key, c.val), top, c)

\* [res for res in top if res is not None], after del top[num:]
entries(top, num) ==
  LET Set(sl) == ~sl.none
      Entry(sl) == [tot |-> sl.tot, vals |-> sl.vals]
      kept == SelectSeq(SubSeq(top, 1, num), Set)
  IN [i \in 1..Len(kept) |-> Entry(kept[i])]

\* The max mode of top_events: the keys sorted by (int(x[val]), x[pos]),
\* reverse=True, the first num of them.  Comparing two tuples with equal
\* integers compares the group values, and raises TypeError when they differ
\* and one of them is None.
max_raises(ks, pos, val) ==
  \E i, j \in 1..Len(ks) :
     /\ IntOf(ks[i][val]) = IntOf(ks[j][val])
     /\ ks[i][pos] = None /\ ks[j][pos] # None

max_before(a, b, pos, val) ==
  \/ IntOf(a[val]) > IntOf(b[val])
  \/ IntOf(a[val]) = IntOf(b[val]) /\ a[pos] # b[pos] /\ StrLess(b[pos], a[pos])

insert_max(sorted, k, pos, val) ==
  LET n == Cardinality({i \in 1..Len(sorted) : ~max_before(k, sorted[i], pos, val)}) IN
  SubSeq(sorted, 1, n) \o <<k>> \o SubSeq(sorted, n + 1, Len(sorted))

RECURSIVE sorted_max(_, _, _)
sorted_max(ks, pos, val) ==
  IF Len(ks) = 0 THEN <<>>
  ELSE insert_max(sorted_max(SubSeq(ks, 1, Len(ks) - 1), pos, val), ks[Len(ks)], pos, val)

\* AppRule.top_events(num, valfld, usemax, gid)
top_events(r, num, valfld, usemax, gid) ==
  LET ks == [i \in 1..Len(r.results) |-> r.results[i].key]
      pos == Index(r.key_gids, gid)
      val == IF valfld = NoField THEN 0 ELSE Index(r.key_gids, valfld)
      ints == [i \in 1..Len(ks) |-> IF val = 0 THEN Ok(0) ELSE Raise(IntRaises(ks[i][val]))]
      top0 == NoneSlots(num)
  IN IF Len(r.results) = 0 THEN Ok(<<>>)
     ELSE IF pos = 0 \/ (valfld # NoField /\ val = 0) THEN Raise("ValueError")
     ELSE IF valfld # NoField /\ usemax
     THEN IF Fold(ints).raised # "none" THEN Raise(Fold(ints).raised)
          ELSE IF max_raises(ks, pos, val) THEN Raise("TypeError")
          ELSE LET first == SubSeq(sorted_max(ks, pos, val), 1, Min({num, Len(ks)})) IN
               Ok([i \in 1..Len(first) |->
                     [tot |-> IntOf(first[i][val]), vals |-> <<first[i][pos]>>]])
     ELSE IF sort_raises(ks, pos) THEN Raise("TypeError")
     ELSE LET sorted == sorted_by(ks, pos)
              badint == [i \in 1..Len(sorted) |->
                           IF val = 0 THEN Ok(0) ELSE Raise(IntRaises(sorted[i][val]))]
          IN IF Fold(badint).raised # "none" THEN Raise(Fold(badint).raised)
             ELSE Ok(entries(top_loop(r, sorted, None, 0, top0, [num |-> num, pos |-> pos, val |-> val]),
                             num))

\* An entry of the fields argument of list_events: a quoted label, which is
\* a fixed column, or the name of a key field.
Label(text) == [label |-> TRUE, name |-> text]
Field(gid) == [label |-> FALSE, name |-> gid]
IsField(f) == ~f.label

\* tabvalues[value] += n, or tabvalues[value] = n for a new value.
tab_add(tabvalues, value, n) ==
  IF value \in Keys(tabvalues)
  THEN [tabvalues EXCEPT ![Pos(tabvalues, value)].cnt = @ + n]
  ELSE Append(tabvalues, [key |-> value, cnt |-> n])

\* The keys the loop of list_events skips: the tested field is None (the
\* TypeError the code catches), or the condition does not select it.
list_skips(key, c) ==
  /\ c.cond # Star
  /\ LET tested == key[c.condpos] IN
       \/ tested = None
       \/ c.cond.op = "==" /\ ~Search(c.cond.lit, tested)
       \/ c.cond.op = "!=" /\ Search(c.cond.lit, tested)

\* insert_row(), the inner function of list_events: the row of the template
\* with its j-th open place taking tabkey[j], and tabvalues at j = keylen.
\* An open place after that one reads tabkey out of its range.
insert_row(tabkey, tabvalues, c) ==
  LET open(n) == Cardinality({m \in 1..n : c.row_template[m].label = FALSE})
  IN [n \in 1..Len(c.row_template) |->
        IF c.row_template[n].label THEN [t |-> "label", label |-> c.row_template[n].name]
        ELSE IF open(n) = c.keylen + 1 THEN [t |-> "values", d |-> tabvalues]
        ELSE IF open(n) <= c.keylen THEN [t |-> "key", v |-> tabkey[open(n)]]
        ELSE [t |-> "IndexError"]]

\* The loop of list_events over the sorted keys and the statement after it.
\* tabkey is [none |-> TRUE] for None.
RECURSIVE list_loop(_, _, _, _, _, _)
list_loop(r, keys, tabkey, tabvalues, reslist, c) ==
  IF Len(keys) = 0
  THEN IF Len(tabvalues) > 0 THEN Append(reslist, insert_row(tabkey.v, tabvalues, c))
       ELSE reslist
  ELSE LET key == keys[1] IN
       IF list_skips(key, c) THEN list_loop(r, Tail(keys), tabkey, tabvalues, reslist, c)
       ELSE LET new_tabkey == [i \in 1..c.keylen |-> key[c.pos[i]]]
                value == [i \in 1..(Len(c.pos) - c.keylen) |-> key[c.pos[c.keylen + i]]]
                n == Get(r.results, key)
            IN IF tabkey.none
               THEN list_loop(r, Tail(keys), [none |-> FALSE, v |-> new_tabkey],
                              tab_add(tabvalues, value, n), reslist, c)
               ELSE IF tabkey.v # new_tabkey
               THEN list_loop(r, Tail(keys), [none |-> FALSE, v |-> new_tabkey],
                              tab_add(<<>>, value, n),
                              Append(reslist, insert_row(tabkey.v, tabvalues, c)), c)
               ELSE list_loop(r, Tail(keys), tabkey, tab_add(tabvalues, value, n), reslist, c)

\* AppRule.list_events(cond, cols, fields); fields names a key field at
\* least, and the keylen the code computes is not negative.
list_events(r, cond, cols, fields) ==
  LET ks == [i \in 1..Len(r.results) |-> r.results[i].key]
      named == SelectSeq(fields, IsField)
      pos == [i \in 1..Len(named) |-> Index(r.key_gids, named[i].name)]
      c == [cond |-> cond, pos |-> pos,
            condpos |-> IF cond = Star THEN 0 ELSE Index(r.key_gids, cond.field),
            row_template |-> SubSeq(fields, 1, cols),
            keylen |-> Len(pos) - (Len(fields) - cols) - 1]
      rows == list_loop(r, sorted_by(ks, pos[1]), [none |-> TRUE, v |-> <<>>], <<>>, <<>>, c)
  IN IF Len(r.results) = 0 THEN Ok(<<>>)
     ELSE IF \E i \in 1..Len(pos) : pos[i] = 0 THEN Raise("ValueError")
     ELSE IF cond # Star /\ c.condpos = 0 THEN Raise("ValueError")
     ELSE IF sort_raises(ks, pos[1]) THEN Raise("TypeError")
     ELSE IF \E k \in 1..Len(rows) : \E n \in 1..cols : rows[k][n].t = "IndexError"
          THEN Raise("IndexError")
          ELSE Ok(rows)

-----------------------------------------------------------------------------
(* Specification SpecRule: one AppRule, constructed from a pattern, on which *)
(* add_result and increase_last are called.                                  *)

MaxTotal == 4   \* the counts of a result table sum to at most MaxTotal
MaxK == 2       \* increase_last is called with 0..MaxK

H1 == <<"h", "1">>
H2 == <<"h", "2">>
Alice == <<"a", "l", "c">>
Bob == <<"b", "o", "b">>
S200 == <<"2", "0", "0">>
S404 == <<"4", "0", "4">>
S4 == <<"4">>

\* The patterns rules are constructed from: the empty pattern, a pattern
\* without groups, patterns with optional groups and with a group named
\* 'host', and a pattern that defines a group twice.
RulePatterns ==
  { Pat(<<>>, {}),
    Pat(<<"lit">>, {}),
    Pat(<<"user", "lit", "status">>, {"status"}),
    Pat(<<"status", "host", "user">>, {"user"}),
    Pat(<<"user", "lit", "user">>, {}),
    Pat(<<"host">>, {}) }

\* What a group of a pattern can capture: None when the group is optional and
\* took part in no match.
Captures(pattern, gid) ==
  (CASE gid = "host" -> {H1, H2}
     [] gid = "user" -> {Alice}
     [] gid = "status" -> {S404}
     [] OTHER -> {Bob})
  \cup (IF gid \in pattern.opt THEN {None} ELSE {})

\* The values dicts AppLogParser.process builds for a rule: 'host' and one
\* entry per named group.
ValuesOf(r) ==
  LET dom == {"host"} \cup Range(groupindex(r.regexp)) IN
  { v \in [dom -> {H1, H2, Alice, Bob, S404, None}] :
      \A g \in dom : v[g] \in Captures(r.regexp, g) }

Total(r) == SumSeq(Values(r.results))

NoRet == [fn |-> "none"]
NoHist == [adds |-> {}, bumped |-> {}]

\* The history of add_result calls: how many calls each values dict was given in.
Called(adds, values) ==
  IF \E c \in adds : c.v = values
  THEN {IF c.v = values THEN [c EXCEPT !.n = @ + 1] ELSE c : c \in adds}
  ELSE adds \cup {[v |-> values, n |-> 1]}

RECURSIVE Calls(_)
Calls(cs) == IF cs = {} THEN 0 ELSE LET c == CHOOSE x \in cs : TRUE IN c.n + Calls(cs \ {c})

InitRule ==
  /\ rule \in {AppRule("r", p, None) : p \in RulePatterns}
  /\ ret = NoRet
  /\ hist = NoHist
  /\ NoPipeline

AddResult ==
  /\ rule.raised = "none"
  /\ Total(rule) < MaxTotal
  /\ \E values \in ValuesOf(rule) :
       /\ rule' = add_result(rule, values)
       /\ hist' = [hist EXCEPT !.adds = Called(@, values)]
  /\ ret' = NoRet
  /\ UNCHANGED pvars

IncreaseLast ==
  /\ rule.raised = "none"
  /\ \E k \in 0..MaxK :
       /\ Total(rule) + k <= MaxTotal
       /\ rule' = increase_last(rule, k)
       /\ hist' = IF rule.last_idx = NoIdx THEN hist
                  ELSE [hist EXCEPT !.bumped = @ \cup {rule.last_idx}]
  /\ ret' = NoRet
  /\ UNCHANGED pvars

NextRule == AddResult \/ IncreaseLast

SpecRule == InitRule /\ [][NextRule]_vars

\* C1: for every rule that is successfully constructed, the key-field list is
\* non-empty, starts with 'host', holds no name twice, and its remaining
\* elements are exactly the pattern's other named groups, in the order in
\* which the groups first occur in the pattern.
C1_KeyFieldOrder ==
  rule.raised = "none" =>
    LET k == rule.key_gids
        t == rule.regexp.toks
    IN /\ Len(k) >= 1
       /\ k[1] = "host"
       /\ \A i, j \in 1..Len(k) : i # j => k[i] # k[j]
       /\ {k[i] : i \in 2..Len(k)} = Range(t) \ {"lit", "host"}
       /\ \A i, j \in 2..Len(k) : i < j => Index(t, k[i]) < Index(t, k[j])

\* A rule is constructed from a pattern that names a 'host' group between two
\* other groups.
C1_Witness ==
  /\ rule.raised = "none"
  /\ rule.regexp.toks = <<"status", "host", "user">>
  /\ rule.key_gids = <<"host", "status", "user">>

\* The key a values dict projects to, written out field by field.
KeyOfCall(r, v, key) ==
  /\ Len(key) = Len(r.key_gids)
  /\ key[1] = v["host"]
  /\ \A i \in 2..Len(key) : key[i] = v[r.key_gids[i]]

\* C2: the result table is append-only: no step removes a key or lowers a
\* count; a key that only add_result has touched holds the number of
\* add_result calls made with it; every key has the arity of the key fields
\* and the host value of a call as its first component.
C2_AppendOnly ==
  /\ [][rule.raised = "none" =>
          \A k \in Keys(rule.results) :
             k \in Keys(rule'.results) /\ Get(rule'.results, k) >= Get(rule.results, k)]_rvars
  /\ [](rule.raised = "none" =>
          \A k \in Keys(rule.results) :
             /\ Len(k) = Len(rule.key_gids)
             /\ \E c \in hist.adds : k[1] = c.v["host"]
             /\ k \notin hist.bumped =>
                  Get(rule.results, k) = Calls({c \in hist.adds : KeyOfCall(rule, c.v, k)}))

\* A key was added twice and another key was raised by increase_last.
C2_Witness ==
  /\ rule.raised = "none"
  /\ \E k1, k2 \in Keys(rule.results) :
       /\ k1 # k2
       /\ k1 \notin hist.bumped /\ Get(rule.results, k1) = 2
       /\ k2 \in hist.bumped /\ Get(rule.results, k2) = 2

(***************************************************************************)
(* SpecAgg: a rule with two optional groups, its result table filled by     *)
(* add_result, queried by total_events and top_events.                      *)

MaxAgg == 3     \* the counts of the queried table sum to at most MaxAgg
MaxNum == 2     \* top_events is asked for the top 1..MaxNum

Carol == <<"c", "a", "l">>

AggPattern == Pat(<<"user", "lit", "status">>, {"user", "status"})

\* The values dicts the table is filled from: three users on two hosts, a
\* status that a shorter status is part of, and the two optional groups
\* taking part in no match.
AggValues ==
  { [host |-> H1, user |-> Alice, status |-> S200],
    [host |-> H2, user |-> Alice, status |-> S404],
    [host |-> H1, user |-> Bob, status |-> S404],
    [host |-> H1, user |-> Carol, status |-> S4],
    [host |-> H1, user |-> None, status |-> S4],
    [host |-> H1, user |-> Bob, status |-> None] }

\* The conditions total_events is asked with.
AggConds ==
  { Star, Cond("status", "==", S404), Cond("status", "!=", S404),
    Cond("status", "==", S4), Cond("user", "==", Bob) }

InitAgg ==
  /\ rule = AppRule("r", AggPattern, None)
  /\ ret = NoRet
  /\ hist = NoHist
  /\ NoPipeline

AggAdd ==
  /\ Total(rule) < MaxAgg
  /\ \E values \in AggValues :
       /\ rule' = add_result(rule, values)
       /\ hist' = [hist EXCEPT !.adds = Called(@, values)]
  /\ ret' = NoRet
  /\ UNCHANGED pvars

\* ret keeps the outcome of the one query made of a table until the table
\* changes.
TotalEvents ==
  /\ ret = NoRet
  /\ \E cond \in AggConds, valfld \in {NoField, "status"} :
       ret' = [fn |-> "total_events", cond |-> cond, valfld |-> valfld,
               out |-> total_events(rule, cond, valfld)]
  /\ UNCHANGED <<rule, hist, apps, eng, lf, out>>

TopEvents ==
  /\ ret = NoRet
  /\ \E num \in 1..MaxNum, valfld \in {NoField, "status"},
        usemax \in BOOLEAN, gid \in {"user", "host"} :
       ret' = [fn |-> "top_events", num |-> num, valfld |-> valfld,
               usemax |-> usemax, gid |-> gid,
               out |-> top_events(rule, num, valfld, usemax, gid)]
  /\ UNCHANGED <<rule, hist, apps, eng, lf, out>>

\* The column specifications list_events is asked with: cols and fields.
AggColumns ==
  { [cols |-> 2, fields |-> <<Field("host"), Field("user"), Field("status")>>],
    [cols |-> 3, fields |-> <<Field("host"), Field("user"), Field("status")>>],
    [cols |-> 3, fields |-> <<Field("user"), Label("svc"), Field("status")>>],
    [cols |-> 2, fields |-> <<Field("status"), Field("user")>>],
    [cols |-> 1, fields |-> <<Field("status")>>] }

ListEvents ==
  /\ ret = NoRet
  /\ \E cond \in AggConds, spec \in AggColumns :
       ret' = [fn |-> "list_events", cond |-> cond, cols |-> spec.cols, fields |-> spec.fields,
               out |-> list_events(rule, cond, spec.cols, spec.fields)]
  /\ UNCHANGED <<rule, hist, apps, eng, lf, out>>

NextAgg == AggAdd \/ TotalEvents \/ TopEvents \/ ListEvents

SpecAgg == InitAgg /\ [][NextAgg]_vars

\* The accumulated total of a group value: the counts (or count * integer
\* of the value field) of the keys that carry it, added up.
GroupTotal(r, pos, val, g) ==
  SumSeq([i \in 1..Len(r.results) |->
            IF r.results[i].key[pos] # g THEN 0
            ELSE IF val = 0 THEN r.results[i].cnt
            ELSE r.results[i].cnt * IntOf(r.results[i].key[val])])

\* The value field of every key parses as an integer.
ValueFieldParses(r, valfld) ==
  valfld # NoField =>
    \A k \in Keys(r.results) : IsInt(k[Index(r.key_gids, valfld)])

\* C6: top_events in sum mode returns at most n entries with strictly
\* decreasing totals; each entry's total is the accumulated total of every
\* group value it lists; a group value is listed at most once; group values
\* with equal totals share one entry; the entries are exactly the n highest
\* distinct per-group totals.
C6_TopNTieGrouping ==
  (ret.fn = "top_events" /\ ~ret.usemax /\ ValueFieldParses(rule, ret.valfld)) =>
    LET pos == Index(rule.key_gids, ret.gid)
        val == IF ret.valfld = NoField THEN 0 ELSE Index(rule.key_gids, ret.valfld)
        groups == {k[pos] : k \in Keys(rule.results)}
        GT(g) == GroupTotal(rule, pos, val, g)
        totals == {GT(g) : g \in groups}
        highest == {t \in totals : Cardinality({u \in totals : u > t}) < ret.num}
        top == ret.out.val
    IN /\ ret.out.raised = "none"
       /\ Len(top) <= ret.num
       /\ \A i, j \in 1..Len(top) : i < j => top[i].tot > top[j].tot
       /\ \A i \in 1..Len(top) :
            /\ \A g \in Range(top[i].vals) : g \in groups /\ GT(g) = top[i].tot
            /\ \A a, b \in 1..Len(top[i].vals) : a # b => top[i].vals[a] # top[i].vals[b]
       /\ \A i, j \in 1..Len(top) : i # j => Range(top[i].vals) \cap Range(top[j].vals) = {}
       /\ {top[i].tot : i \in 1..Len(top)} = highest
       /\ \A g \in groups :
            GT(g) \in highest => \E i \in 1..Len(top) : g \in Range(top[i].vals)

\* A key is selected by a condition: the tested field matches the literal
\* (==) or does not match it (!=); the wildcard selects every key.  A field
\* that is null matches no literal.
Selected(r, key, cond) ==
  IF cond.field = "*" THEN TRUE
  ELSE LET tested == key[Index(r.key_gids, cond.field)]
           hit == tested # None /\ Search(cond.lit, tested)
       IN IF cond.op = "==" THEN hit ELSE ~hit

\* C7: total_events returns the sum of the counts of exactly the keys the
\* condition selects (all keys for the wildcard), each count multiplied by
\* the integer of the value field when a value field is given.
C7_TotalWithCondition ==
  (ret.fn = "total_events" /\ ValueFieldParses(rule, ret.valfld)) =>
    LET val == IF ret.valfld = NoField THEN 0 ELSE Index(rule.key_gids, ret.valfld)
        part == [i \in 1..Len(rule.results) |->
                   IF ~Selected(rule, rule.results[i].key, ret.cond) THEN 0
                   ELSE IF val = 0 THEN rule.results[i].cnt
                   ELSE rule.results[i].cnt * IntOf(rule.results[i].key[val])]
    IN ret.out = Ok(SumSeq(part))

\* A key contributes to list_events: the wildcard takes every key; else the
\* tested field is a string that matches the literal (==) or does not match
\* it (!=).  A tested field that is null is skipped under both.
Contributes(r, key, cond) ==
  IF cond.field = "*" THEN TRUE
  ELSE LET tested == key[Index(r.key_gids, cond.field)] IN
       tested # None /\ (cond.op = "==" <=> Search(cond.lit, tested))

\* The fields of a key at the positions ps.
Project(key, ps) == [i \in 1..Len(ps) |-> key[ps[i]]]

\* The maximal runs of consecutive keys of order that agree at the
\* positions gpos.
RECURSIVE Runs(_, _)
Runs(order, gpos) ==
  IF Len(order) = 0 THEN <<>>
  ELSE LET rest == Runs(Tail(order), gpos) IN
       IF Len(rest) > 0 /\ Project(order[1], gpos) = Project(rest[1][1], gpos)
       THEN <<(<<order[1]>> \o rest[1])>> \o Tail(rest)
       ELSE <<(<<order[1]>>)>> \o rest

IsKeyCell(cell) == cell.t = "key"
IsValuesCell(cell) == cell.t = "values"

\* C26: list_events raises nothing; only the keys satisfying the condition
\* contribute; taken in ascending order of the first projected field, each
\* maximal run of consecutive keys with the same grouping key gives exactly
\* one row, which shows the labels, the grouping key and a mapping from
\* every trailing field-value tuple of the run to the sum of the counts of
\* the run's keys with that tuple; an empty table gives an empty list.
C26_ListEvents ==
  ret.fn = "list_events" =>
    LET named == SelectSeq(ret.fields, IsField)
        pos == [i \in 1..Len(named) |-> Index(rule.key_gids, named[i].name)]
        keylen == Len(pos) - (Len(ret.fields) - ret.cols) - 1
        gpos == SubSeq(pos, 1, keylen)
        vpos == SubSeq(pos, keylen + 1, Len(pos))
        sel == {k \in Keys(rule.results) : Contributes(rule, k, ret.cond)}
        rows == ret.out.val
    IN /\ ret.out.raised = "none"
       /\ rule.results = <<>> => rows = <<>>
       /\ \E order \in [1..Cardinality(sel) -> sel] :
            /\ \A i, j \in 1..Len(order) : i < j =>
                 /\ order[i] # order[j]
                 /\ ~StrLess(order[j][pos[1]], order[i][pos[1]])
            /\ LET runs == Runs(order, gpos) IN
               /\ Len(rows) = Len(runs)
               /\ \A k \in 1..Len(runs) :
                    LET run == runs[k]
                        row == rows[k]
                        keycells == SelectSeq(row, IsKeyCell)
                        d == SelectSeq(row, IsValuesCell)[1].d
                    IN /\ Len(row) = ret.cols
                       /\ \A n \in 1..ret.cols : ret.fields[n].label =>
                            row[n].t = "label" /\ row[n].label = ret.fields[n].name
                       /\ [i \in 1..Len(keycells) |-> keycells[i].v] = Project(run[1], gpos)
                       /\ Len(SelectSeq(row, IsValuesCell)) = 1
                       /\ Len(d) = Cardinality(Keys(d))
                       /\ Keys(d) = {Project(run[i], vpos) : i \in 1..Len(run)}
                       /\ \A t \in Keys(d) :
                            Get(d, t) =
                              SumSeq([i \in 1..Len(run) |->
                                        IF Project(run[i], vpos) = t
                                        THEN Get(rule.results, run[i]) ELSE 0])

-----------------------------------------------------------------------------
(* AppLogParser.  A message is a function from the names of the parts its   *)
(* text carries to their strings; a pattern matches a message that carries  *)
(* every group of the pattern that is not optional, and an optional group   *)
(* that the message does not carry captures None.  name_cache is None.      *)
(* A Python value that is True, False or None is "True", "False" or "None". *)

PyBool(b) == IF b THEN "True" ELSE "False"

\* regexp.search(message) is not None
Matches(pattern, message) ==
  \A g \in Range(groupindex(pattern)) \ pattern.opt : g \in DOMAIN message

\* match.group(gid)
Group(message, gid) == IF gid \in DOMAIN message THEN message[gid] ELSE None

\* The names of groups and rules, in the order str compares them.
Names == <<"f", "host", "n", "status", "t", "thread", "user">>

\* a < b for two lists of names (the filter_keys of two rules).
RECURSIVE ListLess(_, _)
ListLess(a, b) ==
  IF Len(b) = 0 THEN FALSE
  ELSE IF Len(a) = 0 THEN TRUE
  ELSE IF a[1] # b[1] THEN Index(Names, a[1]) < Index(Names, b[1])
  ELSE ListLess(Tail(a), Tail(b))

\* sorted(self.rules, key=lambda x: x.filter_keys): stable.
RECURSIVE sorted_rules(_)
sorted_rules(rules) ==
  IF Len(rules) = 0 THEN <<>>
  ELSE LET init == sorted_rules(SubSeq(rules, 1, Len(rules) - 1))
           r == rules[Len(rules)]
           after == {i \in 1..Len(init) : ListLess(r.filter_keys, init[i].filter_keys)}
           at == IF after = {} THEN Len(init) + 1 ELSE Min(after)
       IN SubSeq(init, 1, at - 1) \o <<r>> \o SubSeq(init, at, Len(init))

\* for rule in self.rules: rule.full_match = True
RECURSIVE all_full_match(_)
all_full_match(rules) ==
  IF Len(rules) = 0 THEN <<>>
  ELSE Append(all_full_match(SubSeq(rules, 1, Len(rules) - 1)),
              [rules[Len(rules)] EXCEPT !.full_match = TRUE])

\* AppLogParser.__init__ from what parse_rules returned.  args carries the
\* thread option and whether a report was asked for.  is_used() is True for
\* every rule.  cache is the thread cache process_logfile reaches as
\* app.cache: the lines add_line was given and no flush has taken; purges
\* and flushes count the calls of purge_threads and of the cache's flushes.
AppLogParser(name, args, parsed) ==
  LET has_filters == \E i \in 1..Len(parsed) : Len(parsed[i].filter_keys) > 0 IN
  [name |-> name,
   thread |-> args.thread,
   report |-> args.report,
   counter |-> 0,
   unparsed_counter |-> 0,
   last_rule |-> 0,
   has_filters |-> has_filters,
   cache |-> <<>>,
   purges |-> 0,
   flushes |-> 0,
   rules |-> IF has_filters THEN sorted_rules(parsed) ELSE all_full_match(parsed)]

\* AppLogParser.increase_last(k); last_rule is the position of _last_rule in
\* rules, 0 for None.
app_increase_last(app, k) ==
  IF app.last_rule # 0
  THEN [app EXCEPT !.rules[app.last_rule] = increase_last(@, k)]
  ELSE app

NotMatched == [rule_match |-> FALSE, full_match |-> "None", app_thread |-> None, map_dict |-> None]
Matched(full_match, thread) ==
  [rule_match |-> TRUE, full_match |-> PyBool(full_match), app_thread |-> thread, map_dict |-> None]

\* values of process: 'host' from the event, then one entry per named group.
values_of(r, logdata) ==
  LET gids == Range(groupindex(r.regexp)) IN
  [g \in {"host"} \cup gids |->
     IF g \in gids THEN Group(logdata.message, g) ELSE logdata.host]

\* any([values[key] is None for key in rule.filter_keys])
rejected(r, values) == \E i \in 1..Len(r.filter_keys) : values[r.filter_keys[i]] = None

\* Mutant: the filter keys are not looked at.
process_unfiltered(app, logdata) ==
  LET hits == {i \in 1..Len(app.rules) : Matches(app.rules[i].regexp, logdata.message)} IN
  IF hits = {}
  THEN [app |-> [app EXCEPT !.last_rule = 0,
                            !.unparsed_counter = IF app.has_filters THEN @ ELSE @ + 1],
        raised |-> "none", out |-> NotMatched]
  ELSE LET i == Min(hits)
           r == app.rules[i]
           values == values_of(r, logdata)
           threaded == app.thread /\ "thread" \in Range(groupindex(r.regexp))
       IN [app |-> [app EXCEPT !.last_rule = i,
                               !.rules[i] = IF threaded /\ ~app.report THEN @
                                            ELSE add_result(@, values)],
           raised |-> "none",
           out |-> Matched(r.full_match, IF threaded THEN Group(logdata.message, "thread") ELSE None)]

\* AppLogParser.process(logdata): the application after the call and what the
\* call returned or raised.
process(app, logdata) ==
  LET hits == {i \in 1..Len(app.rules) : Matches(app.rules[i].regexp, logdata.message)} IN
  IF hits = {}
  THEN [app |-> [app EXCEPT !.last_rule = 0,
                            !.unparsed_counter = IF app.has_filters THEN @ ELSE @ + 1],
        raised |-> "none", out |-> NotMatched]
  ELSE LET i == Min(hits)
           r == app.rules[i]
           values == values_of(r, logdata)
           seen == [app EXCEPT !.last_rule = i]
           threaded == app.thread /\ "thread" \in Range(groupindex(r.regexp))
       IN IF \E j \in 1..Len(r.filter_keys) : r.filter_keys[j] \notin DOMAIN values
          THEN [app |-> seen, raised |-> "KeyError", out |-> NotMatched]
          ELSE IF rejected(r, values)
          THEN [app |-> seen, raised |-> "none", out |-> NotMatched]
          ELSE IF threaded
          THEN [app |-> IF app.report THEN [seen EXCEPT !.rules[i] = add_result(@, values)]
                        ELSE seen,
                raised |-> "none",
                out |-> Matched(r.full_match, Group(logdata.message, "thread"))]
          ELSE [app |-> [seen EXCEPT !.rules[i] = add_result(@, values)],
                raised |-> "none",
                out |-> Matched(r.full_match, None)]

(***************************************************************************)
(* SpecApp: one application, constructed from a list of rules in thread or  *)
(* non-thread mode, with or without a report, and handed events.            *)

MaxCalls == 2   \* process is called at most MaxCalls times

Th1 == <<"t", "1">>

\* What parse_rules returns for the applications of SpecApp: rules with one
\* and two filter keys, with a 'thread' group, and rules that are no filters.
RuleF == AppRule("f", Pat(<<"lit", "user", "status">>, {"user", "status"}), <<"user", "status">>)
RuleT == AppRule("t", Pat(<<"thread", "user">>, {"user"}), <<"user">>)
RuleN == AppRule("n", Pat(<<"status", "user">>, {"user"}), None)
ParsedRules == {<<RuleF>>, <<RuleT, RuleF>>, <<RuleF, RuleN>>, <<RuleN>>, <<RuleT>>}

\* The events: every message that carries some of thread, user and status.
Part(g) == CASE g = "user" -> Alice [] g = "status" -> S404 [] OTHER -> Th1
AppEvents ==
  {[host |-> H1, message |-> [g \in gs |-> Part(g)]] : gs \in SUBSET {"thread", "user", "status"}}

InitApp ==
  /\ \E thread \in BOOLEAN, report \in BOOLEAN, parsed \in ParsedRules :
       apps = [a \in {"app"} |-> AppLogParser(a, [thread |-> thread, report |-> report], parsed)]
  /\ ret = NoRet
  /\ hist = [calls |-> 0]
  /\ rule = <<>> /\ eng = <<>> /\ lf = <<>> /\ out = <<>>

Process ==
  /\ hist.calls < MaxCalls
  /\ \E logdata \in AppEvents :
       LET r == process(apps["app"], logdata) IN
       /\ apps' = [apps EXCEPT !["app"] = r.app]
       /\ ret' = [fn |-> "process", logdata |-> logdata, raised |-> r.raised, out |-> r.out]
  /\ hist' = [calls |-> hist.calls + 1]
  /\ UNCHANGED <<rule, eng, lf, out>>

AppIncreaseLast ==
  /\ ret.fn = "process"
  /\ \E k \in 0..MaxK :
       /\ apps' = [apps EXCEPT !["app"] = app_increase_last(@, k)]
       /\ ret' = [fn |-> "increase_last", k |-> k]
  /\ UNCHANGED <<rule, hist, eng, lf, out>>

NextApp == Process \/ AppIncreaseLast

SpecApp == InitApp /\ [][NextApp]_vars

\* C3: when the first rule whose pattern matches the message has filter
\* keys, process returns (False, None, None, None) and leaves that rule's
\* result table as it was if a filter-key group captured None, and returns
\* matched if every filter-key group captured a value; in thread and in
\* non-thread mode alike.
C3_FilterRejection ==
  [][hist'.calls # hist.calls =>
       LET app == apps["app"]
           message == ret'.logdata.message
           hits == {i \in 1..Len(app.rules) : Matches(app.rules[i].regexp, message)}
           i == Min(hits)
           keys == Range(app.rules[i].filter_keys)
       IN (hits # {} /\ keys # {}) =>
            IF \E g \in keys : g \notin DOMAIN message
            THEN /\ ret'.out = NotMatched
                 /\ apps'["app"].rules[i].results = app.rules[i].results
            ELSE ret'.out.rule_match]_vars

\* A filter rule with a 'thread' group matched a message without the user
\* part in thread mode and the call reported no match; the table is empty.
C3_Witness ==
  /\ ret.fn = "process"
  /\ apps["app"].thread
  /\ apps["app"].last_rule # 0
  /\ LET r == apps["app"].rules[apps["app"].last_rule] IN
       /\ r.name = "t"
       /\ "user" \notin DOMAIN ret.logdata.message
       /\ r.results = <<>>
  /\ ret.out = NotMatched

-----------------------------------------------------------------------------
(* matcher.py: the time of an event.                                       *)
(* time.mktime is kept as the tuple it is given, <<year, month, day,        *)
(* ltime>>, which orders as the instants do; ltime is the time of day as a  *)
(* number.  <<>> is an event_time that is not bound yet.                    *)

MonthNames == <<"Jan", "Feb", "Mar", "Apr", "May", "Jun",
                "Jul", "Aug", "Sep", "Oct", "Nov", "Dec">>
MonthNumerals == <<"01", "02", "03", "04", "05", "06",
                   "07", "08", "09", "10", "11", "12">>

\* int(MONTHMAP[month]); 0 where MONTHMAP raises KeyError.
MONTHMAP(month) ==
  IF month \in Range(MonthNames) THEN Index(MonthNames, month)
  ELSE Index(MonthNumerals, month)

get_mktime(year, month, day, ltime) == <<year, MONTHMAP(month), day, ltime>>

RECURSIVE TimeLess(_, _)
TimeLess(a, b) ==
  IF Len(a) = 0 \/ Len(b) = 0 THEN FALSE
  ELSE IF a[1] # b[1] THEN a[1] < b[1]
  ELSE TimeLess(Tail(a), Tail(b))

\* getattr(log_data, 'year', prev_year if log_data.month != '1' and
\* file_month == 1 else file_year); year 0 is an event without the attribute.
event_year(log_data, file_month, file_year) ==
  IF log_data.year # 0 THEN log_data.year
  ELSE IF log_data.month # "1" /\ file_month = 1 THEN file_year - 1
  ELSE file_year

-----------------------------------------------------------------------------
(* The parser set.  A parser is a record with the application it is bound   *)
(* to (app, NoApp when it has none); a line names the parsers whose format  *)
(* it has (fmts, positions in the set).  The set is a cycle: cur is the     *)
(* position of the parser it returned last.                                 *)

NoApp == [t |-> "None"]
AppRef(a) == [t |-> "app", v |-> a]
AppList(as) == [t |-> "list", v |-> as]

\* next(parsers)
cycle_next(parsers) == [parsers EXCEPT !.cur = (@ % Len(parsers.list)) + 1]

\* parsers.detect(line): the other parsers are tried in the order of the
\* cycle; the first whose format the line has becomes the current one.
\* hit = 0: (None, None), and the cycle is back where it was.
detect(parsers, line) ==
  LET n == Len(parsers.list)
      at(k) == ((parsers.cur + k - 1) % n) + 1
      ks == {k \in 1..(n - 1) : at(k) \in line.fmts}
  IN IF ks = {} THEN [parsers |-> parsers, hit |-> 0]
     ELSE [parsers |-> [parsers EXCEPT !.cur = at(Min(ks))], hit |-> at(Min(ks))]

\* Mutant: detection runs for every line.
no_match_always(log_parser, line) == TRUE

\* log_match is None
no_match(log_parser, line) == log_parser \notin line.fmts

-----------------------------------------------------------------------------
(* The tag map: a sequence of items [tag, apps], in the order of the dict.  *)

HasTag(tagmap, tag) == \E i \in 1..Len(tagmap) : tagmap[i].tag = tag
TagApps(tagmap, tag) == tagmap[CHOOSE i \in 1..Len(tagmap) : tagmap[i].tag = tag].apps

\* apptag.startswith(tag)
startswith(s, prefix) == Len(prefix) <= Len(s) /\ SubSeq(s, 1, Len(prefix)) = prefix

RECURSIVE Concat(_)
Concat(ss) == IF Len(ss) = 0 THEN <<>> ELSE ss[1] \o Concat(Tail(ss))

\* [app for tag, _apps in tagmap.items() if apptag.startswith(tag) for app in _apps]
prefix_apps(tagmap, apptag) ==
  Concat([i \in 1..Len(tagmap) |->
            IF startswith(apptag, tagmap[i].tag) THEN tagmap[i].apps ELSE <<>>])

-----------------------------------------------------------------------------
(* create_matcher_engine and process_logfile.                              *)
(* A line of a file is the record of what the parsers make of it: fmts,     *)
(* the attributes of log_data (repeat and year 0 when the attribute is      *)
(* absent, host and apptag None when absent) and pats, whether each of the  *)
(* configured patterns is found in the line.  The state of a call is the    *)
(* record s = [apps, eng, lf, out]; lf.ctl tells how a stage of the loop    *)
(* body ended: "go" on to the next stage, "continue", "break" or "raise",   *)
(* and "next" is the end of the body.                                       *)

PURGE_THREADS_LIMIT == 1000

\* Mutant: count mode does not silence the lines.
create_matcher_engine_loud(obj, parsers) ==
  [parsers |-> [list |-> parsers, cur |-> 0],
   line_number |-> obj.args.line_number,
   tagmap |-> obj.tagmap,
   max_count |-> IF obj.args.quiet THEN 1 ELSE obj.args.max_count,
   use_rules |-> obj.args.use_rules,
   hosts |-> obj.hosts,
   patterns |-> obj.patterns,
   thread |-> obj.args.thread,
   send_selected |-> ~obj.args.quiet,
   invert |-> obj.args.invert,
   count |-> obj.args.count,
   match_unparsed |-> obj.args.unparsed,
   make_report |-> obj.args.report,
   timerange |-> obj.args.timerange,
   initial_dt |-> obj.initial_dt,
   final_dt |-> obj.final_dt,
   hostset |-> {}]

\* max_count: -1 is None.
create_matcher_engine(obj, parsers) ==
  [parsers |-> [list |-> parsers, cur |-> 0],
   line_number |-> obj.args.line_number,
   tagmap |-> obj.tagmap,
   max_count |-> IF obj.args.quiet THEN 1 ELSE obj.args.max_count,
   use_rules |-> obj.args.use_rules,
   hosts |-> obj.hosts,
   patterns |-> obj.patterns,
   thread |-> obj.args.thread,
   send_selected |-> ~(obj.args.quiet \/ obj.args.count),
   invert |-> obj.args.invert,
   count |-> obj.args.count,
   match_unparsed |-> obj.args.unparsed,
   make_report |-> obj.args.report,
   timerange |-> obj.args.timerange,
   initial_dt |-> obj.initial_dt,
   final_dt |-> obj.final_dt,
   hostset |-> {}]

\* "if max_count"
Truthy(n) == n # -1 /\ n # 0

Ctl(s, c) == [s EXCEPT !.lf.ctl = c]
RaiseIn(s, e) == [s EXCEPT !.lf.ctl = "raise", !.lf.raised = e]
\* Mutant: the line is skipped and prev_data is kept.
Skip_keeping_prev_data(s) == [s EXCEPT !.lf.ctl = "continue"]

\* prev_data = None; continue
Skip(s) == [s EXCEPT !.lf.prev_data = <<>>, !.lf.ctl = "continue"]

\* Lines 120-130: the active parser, then detection.
parse_stage(s, line) ==
  IF ~no_match(s.lf.log_parser, line) THEN Ctl(s, "go")
  ELSE LET d == detect(s.eng.parsers, line) IN
       IF d.hit # 0
       THEN [s EXCEPT !.eng.parsers = d.parsers, !.lf.log_parser = d.hit,
                      !.lf.detect = "hit", !.lf.ctl = "go"]
       ELSE [s EXCEPT !.eng.parsers = d.parsers, !.lf.unparsed_counter = @ + 1,
                      !.lf.detect = "miss", !.lf.ctl = "continue"]

\* app.cache.add_line(line, app_thread, pattern_match, full_match, event_time)
add_line(s, a, line) ==
  [s EXCEPT !.apps[a].cache =
     Append(@, [line |-> line, thread |-> s.lf.app_thread,
                pattern_match |-> s.lf.pattern_match,
                full_match |-> s.lf.full_match, event_time |-> s.lf.event_time])]

\* Lines 140-154: the application of the previous event's tag, its last
\* result raised by repeat.  app is what tagmap[...] holds for the tag.
repeat_rules(s, line) ==
  LET apptag == s.lf.prev_data[1].apptag
      tagmap == s.eng.tagmap
      tags == {i \in 1..Len(tagmap) : startswith(apptag, tagmap[i].tag)}
  IN IF ~HasTag(tagmap, apptag) /\ Len(tagmap) > 0 /\ apptag = None
     THEN RaiseIn(s, "AttributeError")
     ELSE IF ~HasTag(tagmap, apptag) /\ tags = {} THEN RaiseIn(s, "KeyError")
     ELSE LET app == AppList(IF HasTag(tagmap, apptag) THEN TagApps(tagmap, apptag)
                             ELSE tagmap[Min(tags)].apps)
              s1 == [s EXCEPT !.lf.app = app]
          IN IF app.t # "app" THEN RaiseIn(s1, "AttributeError")
             ELSE LET s2 == [s1 EXCEPT !.apps[app.v] = app_increase_last(@, line.repeat),
                                       !.apps[app.v].counter = @ + 1]
                  IN IF s.lf.app_thread # None THEN add_line(s2, app.v, line) ELSE s2

\* Lines 134-159: a 'message repeated N times' line.
repeat_stage(s, line) ==
  IF line.repeat = 0 THEN [s EXCEPT !.lf.prev_data = <<line>>, !.lf.ctl = "go"]
  ELSE IF s.lf.prev_data # <<>>
  THEN LET s1 == IF s.eng.thread THEN s
                 ELSE [s EXCEPT !.lf.matching_counter = @ + line.repeat]
           s2 == IF s.eng.use_rules THEN repeat_rules(s1, line) ELSE s1
       IN IF s2.lf.raised # "none" THEN s2
          ELSE [s2 EXCEPT !.lf.prev_data = <<>>, !.lf.ctl = "continue"]
  ELSE IF s.lf.app.t = "None" THEN Ctl(s, "continue")
  ELSE IF s.lf.app.t # "app" THEN RaiseIn(s, "AttributeError")
  ELSE [s EXCEPT !.apps[s.lf.app.v].counter = @ + 1, !.lf.ctl = "continue"]

\* timerange.between(ltime); timerange is <<from, to>>.
between(timerange, ltime) == timerange[1] <= ltime /\ ltime <= timerange[2]

\* Lines 165-188: the time of the event against the scope.
time_stage(s, line) ==
  IF MONTHMAP(line.month) = 0 THEN RaiseIn(s, "KeyError")
  ELSE LET year == event_year(line, s.lf.file_month, s.lf.file_year)
           event_time == get_mktime(year, line.month, line.day, line.ltime)
           s1 == [s EXCEPT !.lf.year = year, !.lf.event_time = event_time]
       IN IF TimeLess(event_time, s.eng.initial_dt) THEN Skip(s1)
          ELSE IF TimeLess(s.eng.final_dt, event_time) THEN Ctl(s1, "break")
          ELSE IF s.eng.timerange # <<>> /\ ~between(s.eng.timerange, line.ltime) THEN Skip(s1)
          ELSE Ctl(s1, "go")

\* Lines 193-202: the host filter; hosts is the list of the host patterns,
\* each an ordinary text to search for.
host_stage(s, line) ==
  IF Len(s.eng.hosts) = 0 \/ line.host = None \/ Len(line.host) = 0
     \/ line.host \in s.eng.hostset
  THEN Ctl(s, "go")
  ELSE IF \E i \in 1..Len(s.eng.hosts) : Search(s.eng.hosts[i], line.host)
  THEN [s EXCEPT !.eng.hostset = @ \cup {line.host}, !.lf.ctl = "go"]
  ELSE Skip(s)

\* Lines 207-222: the patterns; patterns is the number of them, line.pats[i]
\* whether the i-th is found in the line.
pattern_stage(s, line) ==
  LET n == s.eng.patterns
      invert == s.eng.invert
      stops == {i \in 1..n : line.pats[i] # invert}
  IN IF n > 0
     THEN IF stops # {}
          THEN [s EXCEPT !.lf.pattern_match = line.pats[Min(stops)], !.lf.ctl = "go"]
          ELSE LET s1 == [s EXCEPT !.lf.pattern_match = line.pats[n]] IN
               IF s.eng.thread THEN Ctl(s1, "go") ELSE Skip(s1)
     ELSE LET s1 == [s EXCEPT !.lf.pattern_match = FALSE] IN
          IF invert /\ ~s.eng.thread THEN Skip(s1) ELSE Ctl(s1, "go")

\* The tuple process returned is bound to rule_match, full_match, app_thread
\* and map_dict; r is what the call made of the application and returned.
bind_outcome(s, a, r) ==
  IF r.raised # "none" THEN RaiseIn([s EXCEPT !.apps[a] = r.app], r.raised)
  ELSE [s EXCEPT !.apps[a] = r.app,
                 !.lf.rule_match = r.out.rule_match,
                 !.lf.full_match = r.out.full_match,
                 !.lf.app_thread = r.out.app_thread,
                 !.lf.calls = @ + 1]

\* rule_match, full_match, app_thread, map_dict = app.process(log_data)
call_process(s, a, line) ==
  bind_outcome(s, a, process(s.apps[a], [host |-> line.host, message |-> line.message]))

\* Lines 249-256: the candidates of a tag are tried in turn.
RECURSIVE try_apps(_, _, _)
try_next(s, tag_apps, line) ==
  IF s.lf.raised # "none" THEN s
  ELSE IF s.lf.rule_match THEN Ctl(s, "go")
  ELSE try_apps(s, Tail(tag_apps), line)

try_apps(s, tag_apps, line) ==
  IF Len(tag_apps) = 0 THEN Skip(s)
  ELSE try_next(call_process([s EXCEPT !.lf.app = AppRef(tag_apps[1])], tag_apps[1], line),
                tag_apps, line)

\* Mutant: the tags that apptag starts with are always consulted.
tag_apps_by_prefix(tagmap, apptag) == prefix_apps(tagmap, apptag)

\* Lines 231-237: tagmap[apptag], or the applications of the tags that
\* apptag starts with.
tag_apps_of(tagmap, apptag) ==
  IF HasTag(tagmap, apptag) THEN TagApps(tagmap, apptag) ELSE prefix_apps(tagmap, apptag)

\* Mutant: an unknown tag is skipped without being recorded.
resolve_tag_unrecorded(s, line, tag_apps) ==
  IF Len(tag_apps) = 0
  THEN Skip([s EXCEPT !.lf.app = NoApp])
  ELSE IF Len(tag_apps) = 1 \/ ~s.eng.use_rules
  THEN [s EXCEPT !.lf.app = AppRef(tag_apps[1]), !.lf.ctl = "go"]
  ELSE try_apps(s, tag_apps, line)

\* Lines 239-256: the application among the candidates of the tag.
resolve_tag(s, line, tag_apps) ==
  IF Len(tag_apps) = 0
  THEN Skip([s EXCEPT !.lf.app = NoApp, !.lf.extra_tags = @ \cup {line.apptag}])
  ELSE IF Len(tag_apps) = 1 \/ ~s.eng.use_rules
  THEN [s EXCEPT !.lf.app = AppRef(tag_apps[1]), !.lf.ctl = "go"]
  ELSE try_apps(s, tag_apps, line)

\* Lines 226-263: the application of the line.
resolve_stage(s, line) ==
  IF s.eng.parsers.list[s.lf.log_parser].app.t # "None"
  THEN [s EXCEPT !.lf.app = s.eng.parsers.list[s.lf.log_parser].app, !.lf.ctl = "go"]
  ELSE IF line.apptag # None
  THEN resolve_tag(s, line, tag_apps_of(s.eng.tagmap, line.apptag))
  ELSE IF s.lf.file_app.t # "None"
  THEN [s EXCEPT !.lf.app = s.lf.file_app, !.lf.ctl = "go"]
  ELSE Skip([s EXCEPT !.lf.app = NoApp])

\* Lines 298-306: the first and the last event time, for the report.
report_times(s) ==
  LET t == s.lf.event_time IN
  IF ~s.eng.make_report THEN s
  ELSE IF s.lf.first_event = <<>> THEN [s EXCEPT !.lf.first_event = t, !.lf.last_event = t]
  ELSE [s EXCEPT !.lf.first_event = IF TimeLess(t, @) THEN t ELSE @,
                 !.lf.last_event = IF TimeLess(@, t) THEN t ELSE @]

\* Lines 270-306: what becomes of the line once process has returned.
after_process(s, a, line) ==
  IF s.lf.raised # "none" THEN s
  ELSE IF ~s.lf.rule_match
  THEN IF ~s.eng.match_unparsed THEN Skip(s) ELSE Ctl(report_times(s), "go")
  ELSE IF s.eng.match_unparsed THEN Skip(s)
  ELSE IF s.lf.app_thread # None THEN Ctl(report_times(add_line(s, a, line)), "go")
  ELSE IF s.lf.full_match # "True" /\ s.apps[a].has_filters THEN Skip(s)
  ELSE Ctl(report_times(s), "go")

\* Lines 268-269: the rules are applied to a line a pattern was found in,
\* and to every line in thread mode.
apply_rules(s, a, line) ==
  IF ~(s.eng.use_rules /\ (s.lf.pattern_match \/ s.eng.thread)) THEN Ctl(s, "go")
  ELSE after_process(call_process(s, a, line), a, line)

\* Lines 265-306: the application counts the line and its rules are applied.
rules_stage(s, line) ==
  IF s.lf.app.t # "app" THEN RaiseIn(s, "AttributeError")
  ELSE apply_rules([s EXCEPT !.apps[s.lf.app.v].counter = @ + 1], s.lf.app.v, line)

\* cache.flush_old_cache / cache.flush_cache(event_time, send_selected,
\* max_threads): the first n buffered lines leave the cache, are sent when
\* send_selected, and n is returned.  cap is max_threads, -1 for None; the
\* cache is asked for `wish` lines.
flush(s, a, wish, cap) ==
  LET cache == s.apps[a].cache
      n == Min({wish, Len(cache)} \cup (IF cap = -1 THEN {} ELSE IF cap < 0 THEN {0} ELSE {cap}))
      sent == [i \in 1..n |-> [kind |-> "thread", line |-> cache[i].line]]
  IN [s EXCEPT !.apps[a].cache = SubSeq(cache, n + 1, Len(cache)),
               !.apps[a].flushes = @ + 1,
               !.out = IF s.eng.send_selected THEN @ \o sent ELSE @,
               !.lf.matching_counter = @ + n]

\* Lines 313-316: for app in applist, purge and flush the old threads.
RECURSIVE flush_old_all(_, _, _)
flush_old_all(s, applist, fl) ==
  IF Len(applist) = 0 THEN s
  ELSE LET a == applist[1]
           cap == IF s.eng.max_count = -1 THEN -1
                  ELSE IF s.eng.max_count - s.lf.matching_counter < 0 THEN -2
                  ELSE s.eng.max_count - s.lf.matching_counter
       IN flush_old_all(flush([s EXCEPT !.lf.app = AppRef(a), !.apps[a].purges = @ + 1],
                              a, fl[a], cap),
                        Tail(applist), fl)

\* Lines 311-330: counting and sending, and the end of the budget.
dispatch(s, line, fl) ==
  LET s1 == IF s.eng.thread
            THEN IF s.lf.line_counter % PURGE_THREADS_LIMIT = 0
                 THEN flush_old_all(s, s.lf.applist, fl)
                 ELSE s
            ELSE [s EXCEPT !.lf.matching_counter = @ + 1,
                           !.out = IF s.eng.send_selected
                                   THEN Append(@, [kind |-> "event",
                                                   line_number |-> IF s.eng.line_number
                                                                   THEN s.lf.line_counter ELSE 0,
                                                   log_data |-> line,
                                                   pattern_match |-> s.lf.pattern_match])
                                   ELSE @]
  IN IF Truthy(s.eng.max_count) /\ s1.lf.matching_counter >= s.eng.max_count
     THEN Ctl(s1, "break")
     ELSE Ctl(s1, "next")

\* A stage of the loop body runs when the stage before it went on.
then_repeat(s, line) == IF s.lf.ctl # "go" THEN s ELSE repeat_stage(s, line)
then_time(s, line) == IF s.lf.ctl # "go" THEN s ELSE time_stage(s, line)
then_host(s, line) == IF s.lf.ctl # "go" THEN s ELSE host_stage(s, line)
then_pattern(s, line) == IF s.lf.ctl # "go" THEN s ELSE pattern_stage(s, line)
then_resolve(s, line) == IF s.lf.ctl # "go" THEN s ELSE resolve_stage(s, line)
then_rules(s, line) == IF s.lf.ctl # "go" THEN s ELSE rules_stage(s, line)

\* Lines 115-222: the line is parsed and passes the filters.
filtered(s, line) ==
  then_pattern(then_host(then_time(then_repeat(parse_stage(s, line), line), line), line), line)

dispatched(s, line, fl) == IF s.lf.ctl # "go" THEN s ELSE dispatch(s, line, fl)

\* The body of the loop over the lines of the file, lines 115-330.
iteration(s, line, fl) ==
  dispatched(then_rules(then_resolve(filtered(s, line), line), line), line, fl)

\* Lines 333-342: the flush at the end of the file.
RECURSIVE flush_all(_, _, _)
flush_all(s, applist, fl) ==
  IF Len(applist) = 0 \/ s.lf.event_time = <<>> THEN s
  ELSE LET s1 == [s EXCEPT !.lf.app = AppRef(applist[1]),
                            !.apps[applist[1]].purges = @ + 1] IN
       IF Truthy(s.eng.max_count) /\ s.lf.matching_counter >= s.eng.max_count THEN s1
       ELSE LET cap == IF ~Truthy(s.eng.max_count) THEN -1
                       ELSE s.eng.max_count - s.lf.matching_counter
            IN flush_all(flush(s1, applist[1], fl[applist[1]], cap), Tail(applist), fl)

\* Lines 89-112: the locals of process_logfile(filename, applist) before the
\* first line; call holds the file, applist and the mtime of the file.
begin_file(log_parser, call) ==
  [pc |-> IF Len(call.file) = 0 THEN "eof" ELSE "loop",
   file |-> call.file,
   applist |-> call.applist,
   file_year |-> call.file_year,
   file_month |-> call.file_month,
   first_event |-> <<>>,
   last_event |-> <<>>,
   log_parser |-> log_parser,
   prev_data |-> <<>>,
   app |-> NoApp,
   app_thread |-> None,
   matching_counter |-> 0,
   unparsed_counter |-> 0,
   full_match |-> "False",
   extra_tags |-> {},
   line_counter |-> 0,
   file_app |-> IF Len(call.applist) = 1 THEN AppRef(call.applist[1]) ELSE NoApp,
   year |-> 0,
   event_time |-> <<>>,
   pattern_match |-> FALSE,
   rule_match |-> FALSE,
   raised |-> "none",
   ctl |-> "go",
   detect |-> "no",
   calls |-> 0]

\* The wishes of the thread caches' flushes, one per application of the file.
Flushes(f, wanted) ==
  IF wanted THEN [Range(f.applist) -> 0..Len(f.file)] ELSE {[a \in Range(f.applist) |-> 0]}

BeginFile ==
  /\ lf.pc = "call"
  /\ eng' = [eng EXCEPT !.parsers = cycle_next(@)]
  /\ lf' = begin_file(eng'.parsers.cur, lf)
  /\ UNCHANGED <<rule, ret, hist, apps, out>>

\* The state after the loop body: the loop goes on, ends or is left by an
\* exception.
Becomes(s) ==
  /\ apps' = s.apps
  /\ eng' = s.eng
  /\ out' = s.out
  /\ lf' = [s.lf EXCEPT !.pc = IF s.lf.ctl = "raise" THEN "raised"
                               ELSE IF s.lf.ctl = "break" THEN "eof"
                               ELSE IF s.lf.line_counter = Len(s.lf.file) THEN "eof"
                               ELSE "loop"]

Line ==
  /\ lf.pc = "loop"
  /\ LET line == lf.file[lf.line_counter + 1]
         s0 == [apps |-> apps, eng |-> eng, out |-> out,
                lf |-> [lf EXCEPT !.line_counter = @ + 1, !.detect = "no",
                                  !.calls = 0, !.ctl = "go"]]
     IN \E fl \in Flushes(lf, eng.thread /\ (lf.line_counter + 1) % PURGE_THREADS_LIMIT = 0) :
          Becomes(iteration(s0, line, fl))
  /\ UNCHANGED <<rule, ret, hist>>

\* Lines 345-348: the summary of count mode, and the tuple returned.
Returns(s) ==
  /\ apps' = s.apps
  /\ out' = IF s.eng.count
            THEN Append(s.out, [kind |-> "count", counter |-> s.lf.matching_counter])
            ELSE s.out
  /\ lf' = [s.lf EXCEPT !.pc = "done"]
  /\ ret' = [fn |-> "process_logfile",
             out |-> [line_counter |-> s.lf.line_counter,
                      matching_counter |-> s.lf.matching_counter,
                      unparsed_counter |-> s.lf.unparsed_counter,
                      extra_tags |-> s.lf.extra_tags,
                      first_event |-> s.lf.first_event,
                      last_event |-> s.lf.last_event]]

EndFile ==
  /\ lf.pc = "eof"
  /\ \E fl \in Flushes(lf, eng.thread) :
       Returns(IF eng.thread
               THEN flush_all([apps |-> apps, eng |-> eng, out |-> out, lf |-> lf], lf.applist, fl)
               ELSE [apps |-> apps, eng |-> eng, out |-> out, lf |-> lf])
  /\ UNCHANGED <<rule, hist, eng>>

NextFile == BeginFile \/ Line \/ EndFile

(***************************************************************************)
(* The runs of process_logfile that are checked.  Each specification below  *)
(* starts from a call of process_logfile on a file of at most MaxLines      *)
(* lines, with the engine of one configuration.                             *)

MaxLines == 4   \* a file has at most MaxLines lines

\* The run options, as argparse leaves them when no option is given.
DefaultArgs ==
  [line_number |-> FALSE, quiet |-> FALSE, max_count |-> -1, use_rules |-> FALSE,
   thread |-> FALSE, count |-> FALSE, invert |-> FALSE, unparsed |-> FALSE,
   report |-> FALSE, timerange |-> <<>>]

AppTag == <<"a", "b">>

\* The Lograptor instance create_matcher_engine reads: no host and no
\* pattern, no time scope, one application behind the tag.
DefaultObj ==
  [args |-> DefaultArgs,
   tagmap |-> <<[tag |-> AppTag, apps |-> <<"app">>]>>,
   hosts |-> <<>>,
   patterns |-> 0,
   initial_dt |-> <<0, 0, 0, 0>>,
   final_dt |-> <<2222, 2, 2, 0>>]

Parser(name) == [name |-> name, app |-> NoApp]

\* An ordinary line of the first format, of the application's tag.
DefaultLine ==
  [fmts |-> {1}, repeat |-> 0, year |-> 0, month |-> "Jan", day |-> 1, ltime |-> 0,
   host |-> H1, apptag |-> AppTag, message |-> <<>>, pats |-> <<>>]

\* The files of 1..n lines over a set of lines.
FilesOf(lines, n) == UNION {[1..k -> lines] : k \in 1..n}

\* The call process_logfile(filename, applist) about to be made.
Call(file, applist, file_year, file_month) ==
  [pc |-> "call", file |-> file, applist |-> applist,
   file_year |-> file_year, file_month |-> file_month]

OneApp(parsed, args) == [a \in {"app"} |-> AppLogParser(a, args, parsed)]

NoRuleCalls == rule = <<>> /\ ret = NoRet /\ hist = NoHist

(***************************************************************************)
(* SpecYear: events with and without a year, in files last modified in      *)
(* January, February and December.                                          *)

FileYear == 2024

YearLines ==
  {[DefaultLine EXCEPT !.month = m, !.year = y] :
     m \in {"Jan", "01", "Feb", "Dec", "12"}, y \in {0, FileYear - 4}}

InitYear ==
  /\ NoRuleCalls
  /\ apps = OneApp(<<RuleN>>, DefaultArgs)
  /\ eng = create_matcher_engine(DefaultObj, <<Parser("rfc3164")>>)
  /\ \E file \in FilesOf(YearLines, MaxLines - 1), file_month \in {1, 2, 12} :
       lf = Call(file, <<"app">>, FileYear, file_month)
  /\ out = <<>>

SpecYear == InitYear /\ [][NextFile]_vars

\* C5: for an event without a year, the inferred year is the file year - 1
\* when the file was modified in January and the event's month is not
\* January; it is the file year when the event's month is January, written
\* "Jan" or as its numeral, and whenever the file was not modified in
\* January.
C5_YearInference ==
  (lf.pc \in {"loop", "eof", "done"} /\ lf.line_counter > 0) =>
    LET line == lf.file[lf.line_counter] IN
    line.year = 0 =>
      lf.year = IF lf.file_month = 1 /\ line.month \notin {"Jan", "01"}
                THEN lf.file_year - 1
                ELSE lf.file_year

(***************************************************************************)
(* SpecDetect: three parsers, and lines of one format, of two formats and   *)
(* of none.                                                                 *)

DetectLines ==
  {[DefaultLine EXCEPT !.fmts = f] : f \in {{}, {1}, {2}, {3}, {1, 2}, {2, 3}}}

InitDetect ==
  /\ NoRuleCalls
  /\ apps = OneApp(<<RuleN>>, DefaultArgs)
  /\ eng = create_matcher_engine(DefaultObj, <<Parser("rfc3164"), Parser("rfc5424"), Parser("dovecot")>>)
  /\ \E file \in FilesOf(DetectLines, MaxLines) : lf = Call(file, <<"app">>, FileYear, 2)
  /\ out = <<>>

SpecDetect == InitDetect /\ [][NextFile]_vars

\* C8: detect is called for a line only if the active parser does not match
\* the line; a line the active parser matches is handled by it with no
\* detect call; the active parser changes only by a detect that succeeds.
C8_DetectOnlyOnFailure ==
  [][(lf.pc = "loop" /\ lf'.line_counter = lf.line_counter + 1) =>
       LET line == lf.file[lf'.line_counter] IN
       /\ lf'.detect # "no" => lf.log_parser \notin line.fmts
       /\ lf.log_parser \in line.fmts =>
            lf'.detect = "no" /\ lf'.log_parser = lf.log_parser
       /\ lf'.log_parser # lf.log_parser =>
            lf'.detect = "hit" /\ lf'.log_parser \in line.fmts]_vars

\* The second parser was promoted by a detection, and a later line that it
\* and the first parser both match was handled without detect.
C8_Witness ==
  /\ lf.pc \in {"loop", "eof"}
  /\ lf.line_counter >= 2
  /\ lf.log_parser = 2
  /\ lf.detect = "no"
  /\ lf.file[lf.line_counter].fmts = {1, 2}
  /\ lf.file[lf.line_counter - 1].fmts = {2}

(***************************************************************************)
(* SpecRepeat: the rule engine on, one pattern that every ordinary line     *)
(* carries, with and without a report; lines the rule matches, a line it    *)
(* does not match, a line without app-tag, which the file's single          *)
(* application takes, and 'message repeated N times' lines.                 *)

Found == <<TRUE>>

RepeatLines ==
  { [DefaultLine EXCEPT !.pats = Found, !.message = [user |-> Alice, status |-> S404]],
    [DefaultLine EXCEPT !.pats = Found, !.message = [status |-> S200]],
    [DefaultLine EXCEPT !.pats = Found, !.message = [user |-> Alice]],
    [DefaultLine EXCEPT !.pats = Found, !.message = [status |-> S200], !.apptag = None],
    [DefaultLine EXCEPT !.pats = Found, !.repeat = 1],
    [DefaultLine EXCEPT !.pats = Found, !.repeat = 2] }

InitRepeat ==
  /\ NoRuleCalls
  /\ \E report \in BOOLEAN :
       LET args == [DefaultArgs EXCEPT !.use_rules = TRUE, !.report = report] IN
       /\ apps = OneApp(<<RuleN>>, args)
       /\ eng = create_matcher_engine([DefaultObj EXCEPT !.args = args, !.patterns = 1],
                                      <<Parser("rfc3164")>>)
  /\ \E file \in FilesOf(RepeatLines, MaxLines - 1) : lf = Call(file, <<"app">>, FileYear, 2)
  /\ out = <<>>

SpecRepeat == InitRepeat /\ [][NextFile]_vars

\* C4: a 'message repeated N times' line that directly follows an ordinary
\* line a rule matched and accumulated under key K with count c, with a
\* report asked for, raises the count of K to c + N, adds no key to any
\* result table, does not call process and adds one to the application's
\* line counter.
C4_RepeatAccumulates ==
  [][(/\ lf.pc = "loop"
      /\ lf'.line_counter = lf.line_counter + 1
      /\ lf.file[lf'.line_counter].repeat > 0
      /\ lf.log_parser \in lf.file[lf'.line_counter].fmts
      /\ lf.prev_data # <<>>
      /\ lf.calls > 0 /\ lf.rule_match
      /\ eng.make_report) =>
       LET a == lf.app.v
           i == apps[a].last_rule
           K == apps[a].rules[i].last_idx
           N == lf.file[lf'.line_counter].repeat
       IN /\ lf'.raised = "none"
          /\ Get(apps'[a].rules[i].results, K) = Get(apps[a].rules[i].results, K) + N
          /\ \A b \in DOMAIN apps : \A j \in 1..Len(apps[b].rules) :
               Keys(apps'[b].rules[j].results) = Keys(apps[b].rules[j].results)
          /\ lf'.calls = 0
          /\ apps'[a].counter = apps[a].counter + 1]_vars

(***************************************************************************)
(* SpecCount: non-thread mode with a maximum match count, the rule engine   *)
(* off, one pattern; lines that carry the pattern and lines that do not,    *)
(* lines of no format and 'message repeated' lines.                         *)

MaxCount == 3   \* the maximum match count is 1..MaxCount

CountLines ==
  { [DefaultLine EXCEPT !.pats = Found],
    [DefaultLine EXCEPT !.pats = <<FALSE>>],
    [DefaultLine EXCEPT !.pats = Found, !.fmts = {}],
    [DefaultLine EXCEPT !.pats = Found, !.repeat = 2] }

InitCount ==
  /\ NoRuleCalls
  /\ \E m \in 1..MaxCount :
       LET args == [DefaultArgs EXCEPT !.max_count = m, !.line_number = TRUE] IN
       /\ apps = OneApp(<<RuleN>>, args)
       /\ eng = create_matcher_engine([DefaultObj EXCEPT !.args = args, !.patterns = 1],
                                      <<Parser("rfc3164")>>)
  /\ \E file \in FilesOf(CountLines, MaxLines) : lf = Call(file, <<"app">>, FileYear, 2)
  /\ out = <<>>

SpecCount == InitCount /\ [][NextFile]_vars

\* The lines of the file that match: ordinary lines of the parser's format
\* that carry the pattern.
MatchingLines(file) ==
  {i \in 1..Len(file) : file[i].fmts # {} /\ file[i].repeat = 0 /\ file[i].pats[1]}

\* C9: in non-thread mode with maximum match count m > 0, quiet and count
\* off, a file with at least m matching lines has exactly its first m
\* matching lines sent and no line after the m-th of them read; a file with
\* fewer has each of its matching lines sent once.
C9_MaxCountTermination ==
  (lf.pc = "done" /\ ~eng.thread /\ eng.max_count > 0 /\ eng.send_selected) =>
    LET matching == MatchingLines(lf.file)
        m == eng.max_count
        upto(i) == Cardinality({j \in matching : j <= i})
        sent == [k \in 1..Len(out) |-> out[k].line_number]
    IN IF Cardinality(matching) >= m
       THEN /\ Len(out) = m
            /\ \A k \in 1..Len(out) : sent[k] \in matching /\ upto(sent[k]) = k
            /\ lf.line_counter \in matching /\ upto(lf.line_counter) = m
       ELSE /\ Len(out) = Cardinality(matching)
            /\ \A k \in 1..Len(out) : sent[k] \in matching /\ upto(sent[k]) = k

(***************************************************************************)
(* SpecE2E: an application without filter rules, the rule engine on, a host *)
(* filter that every line passes, with and without a pattern, in thread and *)
(* in non-thread mode.                                                      *)

RuleUS == AppRule("us", Pat(<<"lit", "user", "lit", "status">>, {}), None)
RuleS == AppRule("s", Pat(<<"lit", "status">>, {}), None)

E2EMessages ==
  { [user |-> Alice, status |-> S200], [user |-> Bob, status |-> S404],
    [status |-> S404], [user |-> Alice] }

E2ELines(n) ==
  {[DefaultLine EXCEPT !.message = m, !.pats = [i \in 1..n |-> TRUE]] : m \in E2EMessages}
  \cup {[DefaultLine EXCEPT !.message = [user |-> Alice, status |-> S200], !.host = H2,
                            !.pats = [i \in 1..n |-> TRUE]]}

InitE2E ==
  /\ NoRuleCalls
  /\ \E thread \in BOOLEAN, n \in {0, 1} :
       LET args == [DefaultArgs EXCEPT !.use_rules = TRUE, !.thread = thread] IN
       /\ apps = OneApp(<<RuleUS, RuleS>>, args)
       /\ eng = create_matcher_engine([DefaultObj EXCEPT !.args = args, !.patterns = n,
                                                         !.hosts = <<<<"h">>>>],
                                      <<Parser("rfc3164")>>)
       /\ \E file \in FilesOf(E2ELines(n), MaxLines - 1) :
            lf = Call(file, <<"app">>, FileYear, 2)
  /\ out = <<>>

SpecE2E == InitE2E /\ [][NextFile]_vars

\* C10: for an application without filter rules and the rule engine on,
\* after a file whose lines all pass the filters and resolve to the
\* application, the result table of each rule maps each key to the number
\* of lines whose first matching rule is that rule and whose host-prefixed
\* value tuple is the key, and holds no other key.
C10_EndToEnd ==
  (lf.pc = "done" /\ eng.use_rules /\ ~apps["app"].has_filters) =>
    LET app == apps["app"]
        file == lf.file
        rulesOf(j) == {i \in 1..Len(app.rules) : Matches(app.rules[i].regexp, file[j].message)}
        keyOf(i, j) == <<file[j].host>> \o
                       [k \in 1..(Len(app.rules[i].key_gids) - 1) |->
                          file[j].message[app.rules[i].key_gids[k + 1]]]
    IN \A i \in 1..Len(app.rules) :
         LET mine == {j \in 1..Len(file) : rulesOf(j) # {} /\ Min(rulesOf(j)) = i} IN
         /\ Keys(app.rules[i].results) = {keyOf(i, j) : j \in mine}
         /\ \A K \in Keys(app.rules[i].results) :
              Get(app.rules[i].results, K) = Cardinality({j \in mine : keyOf(i, j) = K})

(***************************************************************************)
(* SpecWindow: a scope from 05 to 10 o'clock of 1 January of the file's     *)
(* year; events of the year before, at both ends of the scope and after     *)
(* it, with and without a year, each matched by the rule; files last        *)
(* modified in January and in February; thread and non-thread mode.         *)

WindowFrom == <<FileYear, 1, 1, 5>>
WindowTo == <<FileYear, 1, 1, 10>>

WindowLines ==
  {[DefaultLine EXCEPT !.pats = Found, !.message = [status |-> S200],
                       !.year = y[1], !.ltime = y[2]] :
     y \in {<<FileYear - 1, 12>>, <<FileYear, 5>>, <<FileYear, 10>>, <<FileYear, 12>>,
            <<0, 12>>}}

InitWindow ==
  /\ NoRuleCalls
  /\ \E thread \in BOOLEAN :
       LET args == [DefaultArgs EXCEPT !.use_rules = TRUE, !.thread = thread] IN
       /\ apps = OneApp(<<RuleN>>, args)
       /\ eng = create_matcher_engine([DefaultObj EXCEPT !.args = args, !.patterns = 1,
                                                         !.initial_dt = WindowFrom,
                                                         !.final_dt = WindowTo],
                                      <<Parser("rfc3164")>>)
  /\ \E file \in FilesOf(WindowLines, MaxLines - 1), file_month \in {1, 2} :
       lf = Call(file, <<"app">>, FileYear, file_month)
  /\ out = <<>>

SpecWindow == InitWindow /\ [][NextFile]_vars

\* The time of an event: its own year, or for an event without a year the
\* year before the file's when the file was last modified in January and the
\* event is not of January, and the file's year otherwise.
TimeOf(line, file_month, file_year) ==
  <<IF line.year # 0 THEN line.year
    ELSE IF file_month = 1 /\ line.month \notin {"Jan", "01"} THEN file_year - 1
    ELSE file_year,
    MONTHMAP(line.month), line.day, line.ltime>>

\* The counters and the result tables of the applications.
Accumulated == [a \in DOMAIN apps |->
                  [counter |-> apps[a].counter,
                   results |-> [i \in 1..Len(apps[a].rules) |-> apps[a].rules[i].results]]]

\* C11: an ordinary line whose event time is before the lower bound sends
\* nothing and changes no counter and no result table, and the scan goes
\* on; the first ordinary line whose event time is after the upper bound
\* ends the scan of the file: neither it nor a later line sends, accumulates
\* or counts, and no line is read once the scan has ended.
C11_TimeWindow ==
  [][/\ (lf.pc = "loop" /\ lf.file[lf.line_counter + 1].repeat = 0
         /\ lf.log_parser \in lf.file[lf.line_counter + 1].fmts) =>
          LET t == TimeOf(lf.file[lf.line_counter + 1], lf.file_month, lf.file_year) IN
          /\ TimeLess(t, eng.initial_dt) =>
               /\ out' = out /\ Accumulated' = Accumulated
               /\ lf'.matching_counter = lf.matching_counter
               /\ lf'.pc = IF lf.line_counter + 1 = Len(lf.file) THEN "eof" ELSE "loop"
          /\ TimeLess(eng.final_dt, t) =>
               /\ out' = out /\ Accumulated' = Accumulated
               /\ lf'.matching_counter = lf.matching_counter
               /\ lf'.pc = "eof"
     /\ lf.pc \in {"eof", "done"} =>
          /\ lf'.line_counter = lf.line_counter /\ Accumulated' = Accumulated
          /\ ~eng.thread => out' = out]_vars

(***************************************************************************)
(* SpecHost: host patterns configured; lines of a host that a pattern is    *)
(* found in, of a host that none is found in, and lines without a host.     *)
(* The engine goes through several files: after a file, the next one.       *)

HostLines == {[DefaultLine EXCEPT !.host = h] : h \in {H1, H2, None}}

InitHost ==
  /\ NoRuleCalls
  /\ apps = OneApp(<<RuleN>>, DefaultArgs)
  /\ \E hosts \in {<<H1>>, <<Alice, H1>>} :
       eng = create_matcher_engine([DefaultObj EXCEPT !.hosts = hosts], <<Parser("rfc3164")>>)
  /\ \E file \in FilesOf(HostLines, MaxLines - 1) : lf = Call(file, <<"app">>, FileYear, 2)
  /\ out = <<>>

\* The matcher engine is called on the next file, here the lines of the last
\* one but the first, with the file list's applications.
NextLogfile ==
  /\ lf.pc = "done" /\ Len(lf.file) > 1
  /\ lf' = Call(Tail(lf.file), lf.applist, lf.file_year, lf.file_month)
  /\ UNCHANGED <<rule, ret, hist, apps, eng, out>>

NextHost == NextFile \/ NextLogfile

SpecHost == InitHost /\ [][NextHost]_vars

\* A configured host pattern is found in the host.
HostMatches(host) ==
  host # None /\ \E i \in 1..Len(eng.hosts) : Search(eng.hosts[i], host)

\* C12: with host patterns configured, a line that reaches the resolution
\* of its application (and so is counted by it) has a host that a pattern
\* is found in; a line whose host no pattern is found in, a line without a
\* host included, is discarded; and the cache of hosts only ever holds
\* hosts that a pattern is found in, over all the files of the engine.
C12_HostFilter ==
  [][(Len(eng.hosts) > 0 /\ lf.pc = "loop") =>
       LET line == lf.file[lf.line_counter + 1] IN
       /\ Accumulated' # Accumulated => HostMatches(line.host)
       /\ ~HostMatches(line.host) =>
            /\ out' = out /\ Accumulated' = Accumulated
            /\ lf'.matching_counter = lf.matching_counter
       /\ \A h \in eng'.hostset : HostMatches(h)]_vars

(***************************************************************************)
(* SpecPattern: one or two patterns, with and without invert, in thread and *)
(* in non-thread mode, the rule engine on; lines by the patterns that are   *)
(* found in them.                                                           *)

MaxPatterns == 2   \* at most MaxPatterns patterns are configured

PatternLines(n) ==
  {[DefaultLine EXCEPT !.pats = pats, !.message = [status |-> S200]] :
     pats \in [1..n -> BOOLEAN]}

InitPattern ==
  /\ NoRuleCalls
  /\ \E thread \in BOOLEAN, invert \in BOOLEAN, n \in 1..MaxPatterns :
       LET args == [DefaultArgs EXCEPT !.use_rules = TRUE, !.thread = thread,
                                       !.invert = invert] IN
       /\ apps = OneApp(<<RuleN>>, args)
       /\ eng = create_matcher_engine([DefaultObj EXCEPT !.args = args, !.patterns = n],
                                      <<Parser("rfc3164")>>)
       /\ \E file \in FilesOf(PatternLines(n), MaxLines - 1) :
            lf = Call(file, <<"app">>, FileYear, 2)
  /\ out = <<>>

SpecPattern == InitPattern /\ [][NextFile]_vars

\* Some configured pattern is found in the line.
AnyPattern(line) == \E i \in 1..Len(line.pats) : line.pats[i]

\* The line passes the pattern test: some pattern is found in it, or under
\* invert none is.
PassesPatterns(line) == IF eng.invert THEN ~AnyPattern(line) ELSE AnyPattern(line)

\* C13: in non-thread mode with patterns configured, a line goes on to the
\* resolution of its application (and is counted by it) iff some pattern is
\* found in it, and under invert iff no pattern is found in it.
C13_PatternFilter ==
  [][(lf.pc = "loop" /\ ~eng.thread /\ eng.patterns > 0) =>
       LET line == lf.file[lf.line_counter + 1] IN
       (apps'["app"].counter = apps["app"].counter + 1) <=> PassesPatterns(line)]_vars

\* C14: in thread mode a line that fails the pattern test still goes on to
\* the resolution of its application and, the rule engine being on, to
\* process; in non-thread mode the same line is discarded before the
\* resolution.
C14_ThreadKeepsPatternFailures ==
  [][(lf.pc = "loop" /\ eng.patterns > 0
      /\ ~PassesPatterns(lf.file[lf.line_counter + 1])) =>
       IF eng.thread
       THEN /\ apps'["app"].counter = apps["app"].counter + 1
            /\ eng.use_rules => lf'.calls = 1
       ELSE /\ Accumulated' = Accumulated /\ out' = out
            /\ lf'.app = lf.app /\ lf'.calls = 0]_vars

(***************************************************************************)
(* SpecResolve: three applications; a tag map with a tag of one             *)
(* application, tags of several, and tags that are prefixes of others;      *)
(* parsers with and without an application of their own; files of one and   *)
(* of two applications; the rule engine on and off.  Application "a" has a  *)
(* rule for user and status, "b" and "c" a rule for status.  The pattern is *)
(* found in every line but one, whose tag is unknown.                       *)

ResolveTagmap ==
  <<[tag |-> <<"a", "b">>, apps |-> <<"a">>],
    [tag |-> <<"a">>, apps |-> <<"b">>],
    [tag |-> <<"b">>, apps |-> <<"a", "b">>]>>

ResolveTags == {<<"a", "b">>, <<"b">>, <<"a", "a">>, <<"a", "b", "a">>, <<"c">>, None}

ResolveLines ==
  {[DefaultLine EXCEPT !.pats = Found, !.apptag = tag, !.message = m] :
     tag \in ResolveTags,
     m \in {[user |-> Alice, status |-> S200], [status |-> S404], [user |-> Bob]}}
  \cup {[DefaultLine EXCEPT !.pats = <<FALSE>>, !.apptag = <<"c", "c">>,
                            !.message = [status |-> S404]]}

ResolveApps(args) ==
  [a \in {"a", "b", "c"} |->
     AppLogParser(a, args, IF a = "a" THEN <<RuleUS>> ELSE <<RuleS>>)]

InitResolve ==
  /\ NoRuleCalls
  /\ \E use_rules \in BOOLEAN, papp \in {NoApp, AppRef("c")},
        applist \in {<<"a">>, <<"a", "b">>} :
       LET args == [DefaultArgs EXCEPT !.use_rules = use_rules] IN
       /\ apps = ResolveApps(args)
       /\ eng = create_matcher_engine(
                  [DefaultObj EXCEPT !.args = args, !.patterns = 1, !.tagmap = ResolveTagmap],
                  <<[name |-> "rfc3164", app |-> papp]>>)
       /\ \E file \in FilesOf(ResolveLines, MaxLines - 2) :
            lf = Call(file, applist, FileYear, 2)
  /\ out = <<>>

SpecResolve == InitResolve /\ [][NextFile]_vars

\* The candidates of an app-tag: the applications of the tag itself when
\* the tag map has it, else those of the registered tags it starts with.
RECURSIVE PrefixCandidates(_, _)
PrefixCandidates(tagmap, apptag) ==
  IF Len(tagmap) = 0 THEN <<>>
  ELSE (IF Len(tagmap[1].tag) <= Len(apptag)
           /\ \A k \in 1..Len(tagmap[1].tag) : tagmap[1].tag[k] = apptag[k]
        THEN tagmap[1].apps ELSE <<>>) \o PrefixCandidates(Tail(tagmap), apptag)

Candidates(tagmap, apptag) ==
  LET exact == {i \in 1..Len(tagmap) : tagmap[i].tag = apptag} IN
  IF exact # {} THEN tagmap[CHOOSE i \in exact : TRUE].apps
  ELSE PrefixCandidates(tagmap, apptag)

\* The rules of application x match the message.
RulesMatch(x, message) == \E i \in 1..Len(apps[x].rules) : Matches(apps[x].rules[i].regexp, message)

\* The line is resolved to application x: x counts it and no other does.
ResolvedTo(x) ==
  /\ lf'.app = AppRef(x)
  /\ \A y \in DOMAIN apps : apps'[y].counter = apps[y].counter + (IF y = x THEN 1 ELSE 0)

\* The line is discarded: no application counts it and nothing is sent.
Discarded ==
  /\ \A y \in DOMAIN apps : apps'[y].counter = apps[y].counter
  /\ out' = out /\ lf'.matching_counter = lf.matching_counter

\* The resolution of an ordinary line; tried tells what becomes of a line
\* with several candidates when the rule engine is on.
Resolution(line, tried) ==
  LET papp == eng.parsers.list[lf.log_parser].app
      cands == Candidates(eng.tagmap, line.apptag)
  IN IF papp # NoApp THEN ResolvedTo(papp.v)
     ELSE IF line.apptag # None
     THEN IF Len(cands) = 0 THEN Discarded
          ELSE IF Len(cands) = 1 \/ ~eng.use_rules THEN ResolvedTo(cands[1])
          ELSE tried
     ELSE IF Len(lf.applist) = 1 THEN ResolvedTo(lf.applist[1])
     ELSE Discarded

\* C15, as stated, for a line that passed the filters: the parser's own
\* application first; else by app-tag, the
\* exact entry before the prefixes, a single candidate or, the rule engine
\* off, the first of several; the file's single application only for an
\* event without app-tag; in every remaining case the line is discarded and
\* no application counts it.
C15_ResolutionAsStated ==
  [][(lf.pc = "loop" /\ lf.file[lf.line_counter + 1].pats[1]) =>
       LET line == lf.file[lf.line_counter + 1] IN Resolution(line, Discarded)]_vars

\* C15, amended: as above, but with several candidates and the rule engine
\* on the line goes to the first candidate whose rules match its message,
\* and is discarded by the resolution only when no candidate's rules match.
C15_Resolution ==
  [][(lf.pc = "loop" /\ lf.file[lf.line_counter + 1].pats[1]) =>
       LET line == lf.file[lf.line_counter + 1]
           cands == Candidates(eng.tagmap, line.apptag)
           hits == {k \in 1..Len(cands) : RulesMatch(cands[k], line.message)}
       IN Resolution(line, IF hits = {} THEN Discarded ELSE ResolvedTo(cands[Min(hits)]))]_vars

\* A line with an exact entry and prefixes is resolved by the exact entry,
\* and a line with several candidates has gone to the second of them.
C15_Witness ==
  /\ lf.pc \in {"loop", "eof"} /\ lf.line_counter = 2 /\ eng.use_rules
  /\ eng.parsers.list[lf.log_parser].app = NoApp
  /\ lf.file[1].apptag = <<"a", "b">> /\ lf.file[2].apptag = <<"a", "b", "a">>
  /\ lf.file[2].message = [status |-> S404]
  /\ apps["a"].counter = 1 /\ apps["b"].counter = 1 /\ lf.app = AppRef("b")

\* The app-tags without a candidate among the first n lines of the file that
\* passed the filters, under a parser without an application.
UnknownTags(n) ==
  {lf.file[i].apptag : i \in {j \in 1..n :
      /\ lf.file[j].repeat = 0 /\ lf.file[j].pats[1]
      /\ eng.parsers.list[lf.log_parser].app = NoApp
      /\ lf.file[j].apptag # None
      /\ Len(Candidates(eng.tagmap, lf.file[j].apptag)) = 0}}

\* C16: the set of unrecognized app-tags of the file holds exactly the
\* app-tags of the ordinary lines read so far that passed the filters, had
\* no application from the parser and whose tag has neither an entry nor a
\* prefix entry in the tag map; each such line is discarded; and no tag of
\* the set resolves to an application.
C16_UnknownTags ==
  [][/\ lf'.pc \in {"loop", "eof", "done"} =>
          /\ lf'.extra_tags = UnknownTags(lf'.line_counter)
          /\ \A t \in lf'.extra_tags : Len(Candidates(eng.tagmap, t)) = 0
          /\ lf'.pc = "done" => ret'.out.extra_tags = lf'.extra_tags
     /\ (lf.pc = "loop" /\ UnknownTags(lf.line_counter + 1) # UnknownTags(lf.line_counter))
          => Discarded]_vars

C16_Witness ==
  /\ lf.pc = "done" /\ lf.line_counter = 2
  /\ lf.file[1].apptag = <<"c">> /\ lf.file[2].apptag = <<"c", "c">>
  /\ ret.out.extra_tags = {<<"c">>}

(***************************************************************************)
(* Further properties of AppLogParser, checked under SpecApp.               *)

\* The rule of the application that process stops at for the message, 0
\* when no rule's pattern matches it.
FirstRule(app, message) ==
  LET hits == {i \in 1..Len(app.rules) : Matches(app.rules[i].regexp, message)} IN
  IF hits = {} THEN 0 ELSE Min(hits)

\* C17: on the non-thread path of process, a successful match by a rule
\* without filter role adds nothing to the rule's result table when the
\* application has filter rules and no report is asked for; a successful
\* match adds one to the table when a report is asked for, when the rule has
\* a filter role, or when the application has no filter rules.
C17_ConditionalAccumulation ==
  [][hist'.calls # hist.calls =>
       LET app == apps["app"]
           i == FirstRule(app, ret'.logdata.message)
       IN (/\ i # 0
           /\ ~(app.thread /\ "thread" \in Range(groupindex(app.rules[i].regexp)))
           /\ ret'.out.rule_match) =>
            Total(apps'["app"].rules[i]) =
              Total(app.rules[i])
              + (IF app.has_filters /\ ~app.report /\ Len(app.rules[i].filter_keys) = 0
                 THEN 0 ELSE 1)]_vars

\* C18: in thread mode, when the first rule whose pattern matches has a
\* 'thread' group and the match is rejected because a filter-key group
\* captured None, process reports no match but still returns the thread
\* identifier of the message.
C18_ThreadIdOnRejection ==
  [][hist'.calls # hist.calls =>
       LET app == apps["app"]
           message == ret'.logdata.message
           i == FirstRule(app, message)
       IN (/\ i # 0 /\ app.thread
           /\ "thread" \in Range(groupindex(app.rules[i].regexp))
           /\ \E k \in 1..Len(app.rules[i].filter_keys) :
                app.rules[i].filter_keys[k] \notin DOMAIN message) =>
            /\ ~ret'.out.rule_match
            /\ ret'.out.app_thread = message["thread"]]_vars

\* C19: once the application is constructed, a rule is a full-match rule
\* iff it has no filter role or the application has no filter rules.
C19_FullMatchFlag ==
  \A a \in DOMAIN apps : \A i \in 1..Len(apps[a].rules) :
    apps[a].rules[i].full_match <=>
      (Len(apps[a].rules[i].filter_keys) = 0
       \/ \A j \in 1..Len(apps[a].rules) : Len(apps[a].rules[j].filter_keys) = 0)

\* C24: a call of process that ends in filter rejection leaves the recorded
\* last matched rule as it was, and an increase_last after it changes no
\* table of the rule whose match was rejected.
C24_LastRuleOnlyWhenCounted ==
  [][LET app == apps["app"] IN
     /\ hist'.calls # hist.calls =>
          LET message == ret'.logdata.message
              i == FirstRule(app, message)
          IN (/\ i # 0
              /\ \E k \in 1..Len(app.rules[i].filter_keys) :
                   app.rules[i].filter_keys[k] \notin DOMAIN message) =>
               apps'["app"].last_rule = app.last_rule
     /\ (ret.fn = "process" /\ ret'.fn = "increase_last" /\ ~ret.out.rule_match) =>
          LET i == FirstRule(app, ret.logdata.message) IN
          i # 0 => apps'["app"].rules[i] = app.rules[i]]_vars

\* C25: in an application that has filter rules, every rule with filter
\* keys stands before every rule without filter keys, and the rules are the
\* rules parse_rules returned, each once, in some order.
C25_FiltersFirst ==
  \A a \in DOMAIN apps :
    LET rules == apps[a].rules
        names == [i \in 1..Len(rules) |-> rules[i].name]
    IN apps[a].has_filters =>
         /\ \A i, j \in 1..Len(rules) :
              (Len(rules[i].filter_keys) > 0 /\ Len(rules[j].filter_keys) = 0) => i < j
         /\ \E parsed \in ParsedRules :
              /\ Len(parsed) = Len(rules)
              /\ \A i \in 1..Len(parsed) :
                   Cardinality({j \in 1..Len(rules) : names[j] = parsed[i].name}) = 1

(***************************************************************************)
(* SpecPurge: thread mode with and without a maximum match count; lines of  *)
(* a thread, which the rule hands to the thread cache, and lines of no      *)
(* format; the engine goes from one file to the next.                       *)

PurgeLines ==
  {[DefaultLine EXCEPT !.message = [thread |-> Th1, user |-> Alice]],
   [DefaultLine EXCEPT !.fmts = {}]}

InitPurge ==
  /\ NoRuleCalls
  /\ \E max_count \in {-1, 1} :
       LET args == [DefaultArgs EXCEPT !.use_rules = TRUE, !.thread = TRUE,
                                       !.max_count = max_count] IN
       /\ apps = OneApp(<<RuleT>>, args)
       /\ eng = create_matcher_engine([DefaultObj EXCEPT !.args = args], <<Parser("rfc3164")>>)
  /\ \E file \in FilesOf(PurgeLines, MaxLines - 1) : lf = Call(file, <<"app">>, FileYear, 2)
  /\ out = <<>>

SpecPurge == InitPurge /\ [][NextHost]_vars

\* Application a's thread cache is purged and flushed once in the step.
PurgedOnce(a) ==
  apps'[a].purges = apps[a].purges + 1 /\ apps'[a].flushes = apps[a].flushes + 1

\* C20: in thread mode the thread cache of every application of the file is
\* purged and flushed once whenever the line count of the file reaches a
\* multiple of PURGE_THREADS_LIMIT, whatever becomes of that line, once more
\* at the end of the file, and at no other time.
C20_PeriodicPurge ==
  [][eng.thread =>
       \A a \in DOMAIN apps :
         IF \/ lf.pc = "eof" /\ a \in Range(lf.applist)
            \/ /\ lf.pc = "loop" /\ a \in Range(lf.applist)
               /\ (lf.line_counter + 1) % PURGE_THREADS_LIMIT = 0
         THEN PurgedOnce(a)
         ELSE apps'[a].purges = apps[a].purges /\ apps'[a].flushes = apps[a].flushes]_vars

(***************************************************************************)
(* Further properties of the line loop.                                     *)

\* C21: with a positive maximum match count m, the matched-line count of
\* the file never exceeds m, neither while the file is processed nor in the
\* value returned for it, for any mix of ordinary and 'message repeated N
\* times' lines.  Checked under SpecCount.
C21_BudgetNeverExceeded ==
  (lf.pc \in {"loop", "eof", "done"} /\ eng.max_count > 0) =>
    /\ lf.matching_counter <= eng.max_count
    /\ lf.pc = "done" => ret.out.matching_counter <= eng.max_count

(***************************************************************************)
(* SpecSummary: with and without count mode, in thread and non-thread mode, *)
(* the rule engine on; lines of a thread, lines of no format.               *)

InitSummary ==
  /\ NoRuleCalls
  /\ \E count \in BOOLEAN, thread \in BOOLEAN :
       LET args == [DefaultArgs EXCEPT !.use_rules = TRUE, !.thread = thread,
                                       !.count = count] IN
       /\ apps = OneApp(<<RuleT>>, args)
       /\ eng = create_matcher_engine([DefaultObj EXCEPT !.args = args], <<Parser("rfc3164")>>)
  /\ \E file \in FilesOf(PurgeLines, MaxLines - 1) : lf = Call(file, <<"app">>, FileYear, 2)
  /\ out = <<>>

SpecSummary == InitSummary /\ [][NextFile]_vars

\* C22: in count mode the dispatcher is sent no event of a line and exactly
\* one summary, after the last line is processed, whose counter is the
\* matched-line count returned for the file; without count mode it is sent
\* no summary.
C22_CountSummary ==
  LET summaries == {k \in 1..Len(out) : out[k].kind = "count"} IN
  /\ (eng.count /\ lf.pc = "done") =>
       /\ Len(out) = 1 /\ summaries = {1}
       /\ out[1].counter = ret.out.matching_counter
  /\ (eng.count /\ lf.pc # "done") => out = <<>>
  /\ ~eng.count => summaries = {}

C22_Witness ==
  /\ lf.pc = "done" /\ eng.count /\ ret.out.matching_counter > 0
  /\ out = <<[kind |-> "count", counter |-> ret.out.matching_counter]>>

\* C23: no line makes process_logfile raise: whatever the lines (lines of
\* no format, unknown or absent app-tags, lines no rule matches, repeat
\* lines after a line resolved by the parser's application or by the file's
\* single application), the call ends at the end of the file, at the upper
\* time bound or at the match budget.  Checked under SpecRepeat.
C23_NoAbort ==
  lf.pc # "call" => (lf.pc # "raised" /\ lf.raised = "none")

(***************************************************************************)
(* SpecChain: every filter configured: a time scope, a time range within    *)
(* the day, a host pattern, a pattern, a tag map of one tag; the rule       *)
(* engine on and off, thread and non-thread mode, with and without the      *)
(* unparsed option, the application with and without a filter rule.  One    *)
(* line passes everything, each other ordinary line fails one stage, and    *)
(* there is a 'message repeated 2 times' line.                              *)

ChainFrom == <<FileYear, 1, 1, 0>>
ChainTo == <<FileYear, 1, 1, 20>>
ChainRange == <<4, 6>>

ChainLine ==
  [DefaultLine EXCEPT !.pats = Found, !.year = FileYear, !.ltime = 5,
                      !.message = [status |-> S200]]

ChainLines ==
  { ChainLine,
    [ChainLine EXCEPT !.year = FileYear - 1],
    [ChainLine EXCEPT !.ltime = 9],
    [ChainLine EXCEPT !.host = H2],
    [ChainLine EXCEPT !.pats = <<FALSE>>],
    [ChainLine EXCEPT !.apptag = <<"c">>],
    [ChainLine EXCEPT !.message = [user |-> Alice]],
    [ChainLine EXCEPT !.repeat = 2] }

InitChain ==
  /\ NoRuleCalls
  /\ \E use_rules \in BOOLEAN, thread \in BOOLEAN, unparsed \in BOOLEAN,
        parsed \in {<<RuleN>>, <<RuleF, RuleN>>} :
       LET args == [DefaultArgs EXCEPT !.use_rules = use_rules, !.thread = thread,
                                       !.unparsed = unparsed, !.timerange = ChainRange]
       IN /\ apps = OneApp(parsed, args)
          /\ eng = create_matcher_engine(
                     [DefaultObj EXCEPT !.args = args, !.patterns = 1, !.hosts = <<H1>>,
                                        !.initial_dt = ChainFrom, !.final_dt = ChainTo],
                     <<Parser("rfc3164")>>)
  /\ \E file \in FilesOf(ChainLines, MaxLines - 1) : lf = Call(file, <<"app">>, FileYear, 2)
  /\ out = <<>>

SpecChain == InitChain /\ [][NextFile]_vars

\* The result tables of every rule of every application.
Tables == [a \in DOMAIN apps |-> [i \in 1..Len(apps[a].rules) |-> apps[a].rules[i].results]]

\* C27: a 'message repeated N times' line that directly follows an ordinary
\* line discarded by the time scope, the time range, the host filter, the
\* pattern filter in non-thread mode, the resolution of the application or
\* the outcome of the rules leaves every result table and the count of
\* matched lines as they were; and the second of two consecutive repeat
\* lines leaves every result table as it was.
C27_ChainBroken ==
  [][(/\ lf.pc = "loop"
      /\ lf'.line_counter = lf.line_counter + 1
      /\ lf.line_counter >= 1
      /\ lf.file[lf'.line_counter].repeat > 0
      /\ lf.log_parser \in lf.file[lf'.line_counter].fmts
      /\ lf.detect # "miss") =>
       /\ (lf.file[lf.line_counter].repeat = 0 /\ lf.ctl = "continue") =>
            /\ lf'.raised = "none"
            /\ Tables' = Tables
            /\ lf'.matching_counter = lf.matching_counter
       /\ lf.file[lf.line_counter].repeat > 0 =>
            lf'.raised = "none" /\ Tables' = Tables]_vars

\* After a line that passed everything, a line of a host no pattern is
\* found in and a repeat line: one event in the table, one matched line.
C27_Witness ==
  /\ lf.pc = "eof" /\ lf.line_counter = 3 /\ eng.use_rules /\ ~eng.thread
  /\ lf.file[1] = ChainLine
  /\ lf.file[2] = [ChainLine EXCEPT !.host = H2]
  /\ lf.file[3].repeat = 2
  /\ lf.raised = "none" /\ lf.matching_counter = 1
  /\ Total(apps["app"].rules[1]) = 1

(***************************************************************************)
(* A further property of the resolution, checked under SpecResolve.         *)

\* The events in the result tables of the applications as.
RECURSIVE Events(_)
Events(as) ==
  IF as = {} THEN 0
  ELSE LET a == CHOOSE x \in as : TRUE IN
       SumSeq([i \in 1..Len(apps[a].rules) |-> Total(apps[a].rules[i])]) + Events(as \ {a})

\* C28: an ordinary line raises the sum of the counts of all result tables
\* of all applications by one at most, and the unparsed counter of one
\* application at most, by one; also when its app-tag has several
\* candidates and the rules are run against them to pick one.
C28_AccumulatedOnce ==
  [][(/\ lf.pc = "loop"
      /\ lf'.line_counter = lf.line_counter + 1
      /\ lf.file[lf'.line_counter].repeat = 0) =>
       /\ Events(DOMAIN apps)' <= Events(DOMAIN apps) + 1
       /\ Cardinality({a \in DOMAIN apps :
                         apps'[a].unparsed_counter # apps[a].unparsed_counter}) <= 1
       /\ \A a \in DOMAIN apps : apps'[a].unparsed_counter <= apps[a].unparsed_counter + 1]_vars

====
